---------------------------- MODULE Spec2Model ----------------------------
(***************************************************************************)
(* Verification model of the strategy compiler core:                       *)
(*   - the indicator registry   (generators/indicator_generator.py)        *)
(*   - the logic validator      (validators/logic_validator.py)            *)
(*   - the custom indicators    (indicators/*.py)                          *)
(*   - the node code generator  (generators/node_generator.py)             *)
(*   - the compiler pipeline    (strategy_compiler.py)                     *)
(* JSON values handled by the Python code are modelled as tagged records,  *)
(* Python dicts as insertion-ordered sequences of <<key, value>> pairs.    *)
(***************************************************************************)
EXTENDS Integers, Sequences, FiniteSets, TLC

VARIABLES
    indicators_used,        \* IndicatorGenerator.indicators_used: ordered dict key -> config
    custom_methods_needed,  \* IndicatorGenerator.custom_methods_needed
    reg_prev,               \* indicators_used as it was before the latest registration
    reg_calls,              \* the configurations registered since the reset, oldest first
    key_cfgs,               \* the two configurations handed to _create_indicator_key
    key_out,                \* their keys, once computed
    vin,                    \* a call of one node validator: [fn, node, ...arguments]
    vout,                   \* what the call did: [done, raised, is_valid, errors]
    logic,                  \* the root handed to validate_logic
    lg_agenda,              \* the calls validate_logic still has to make, next first
    lg_visited,             \* the nodes handed to check_node_type_and_validate so far
    lg_printed,             \* the errors printed so far
    lg_status,              \* "idle", "running", "returned", "exited" (sys.exit) or "raised"
    ind_kind,               \* the custom indicator built: "max-drawdown", "drawdown" ("none": none)
    ind,                    \* its fields: [period, price_history, is_ready]
    ind_seen,               \* every price passed to update so far, oldest first
    gen_hash,               \* the interpreter's string-hash seed, as the order in which a set yields the symbols
    gen,                    \* the NodeGenerator object: its fields and its registry
    gen_in,                 \* the arguments of generate_logic_code: [logic, universe]
    gen_runs,               \* what each call of generate_logic_code returned, oldest first
    pl_pc,                  \* where start_compiler is: the stage to run next, or how the run ended
    pl_in,                  \* the strategy file: what its sections make the validators answer
    pl_trace,               \* the stages start_compiler has started, oldest first
    pl_written              \* write_py_file has written the output file

regVars == <<indicators_used, custom_methods_needed, reg_prev, reg_calls>>
keyVars == <<key_cfgs, key_out>>
valVars == <<vin, vout>>
logicVars == <<logic, lg_agenda, lg_visited, lg_printed, lg_status>>
indVars == <<ind_kind, ind, ind_seen>>
genVars == <<gen_hash, gen, gen_in, gen_runs>>
pipeVars == <<pl_pc, pl_in, pl_trace, pl_written>>
vars == <<regVars, keyVars, valVars, logicVars, indVars, genVars, pipeVars>>

\* Each part of the compiler is exercised on its own; the others stay idle.
IdleRegistry ==
    /\ indicators_used = <<>>
    /\ custom_methods_needed = {}
    /\ reg_prev = <<>>
    /\ reg_calls = <<>>
IdleKey == key_cfgs = <<>> /\ key_out = <<>>
IdleValidate == vin = [fn |-> "none"] /\ vout = [done |-> FALSE]
IdleLogic ==
    /\ logic = [t |-> "null"]
    /\ lg_agenda = <<>>
    /\ lg_visited = <<>>
    /\ lg_printed = <<>>
    /\ lg_status = "idle"
IdleIndicator ==
    /\ ind_kind = "none"
    /\ ind = [period |-> 0, price_history |-> <<>>, is_ready |-> FALSE]
    /\ ind_seen = <<>>
IdleGenerator ==
    /\ gen_hash = <<>>
    /\ gen = [t |-> "null"]
    /\ gen_in = [t |-> "null"]
    /\ gen_runs = <<>>
IdlePipeline ==
    /\ pl_pc = "idle"
    /\ pl_in = [t |-> "null"]
    /\ pl_trace = <<>>
    /\ pl_written = FALSE
IdleExceptRegistry == IdleKey /\ IdleValidate /\ IdleLogic /\ IdleIndicator /\ IdleGenerator /\ IdlePipeline
IdleExceptKey == IdleRegistry /\ IdleValidate /\ IdleLogic /\ IdleIndicator /\ IdleGenerator /\ IdlePipeline
IdleExceptValidate == IdleRegistry /\ IdleKey /\ IdleLogic /\ IdleIndicator /\ IdleGenerator /\ IdlePipeline
IdleExceptLogic == IdleRegistry /\ IdleKey /\ IdleValidate /\ IdleIndicator /\ IdleGenerator /\ IdlePipeline
IdleExceptIndicator == IdleRegistry /\ IdleKey /\ IdleValidate /\ IdleLogic /\ IdleGenerator /\ IdlePipeline
IdleExceptGenerator == IdleRegistry /\ IdleKey /\ IdleValidate /\ IdleLogic /\ IdleIndicator /\ IdlePipeline
exceptRegistry == <<keyVars, valVars, logicVars, indVars, genVars, pipeVars>>
exceptKey == <<regVars, valVars, logicVars, indVars, genVars, pipeVars>>
exceptValidate == <<regVars, keyVars, logicVars, indVars, genVars, pipeVars>>
exceptLogic == <<regVars, keyVars, valVars, indVars, genVars, pipeVars>>
exceptIndicator == <<regVars, keyVars, valVars, logicVars, genVars, pipeVars>>
exceptGenerator == <<regVars, keyVars, valVars, logicVars, indVars, pipeVars>>

(***************************************************************************)
(* Bounds of the model.                                                    *)
(***************************************************************************)
MaxCalls == 2

(***************************************************************************)
(* JSON / Python values.                                                   *)
(***************************************************************************)
Null == [t |-> "null"]
Absent == [t |-> "absent"]
B(b) == [t |-> "bool", v |-> b]
I(n) == [t |-> "int", v |-> n]
S(s) == [t |-> "str", v |-> s]
L(q) == [t |-> "list", v |-> q]
D(q) == [t |-> "dict", v |-> SelectSeq(q, LAMBDA p : p[2] # Absent)]

\* A float n/100.
Fl(n) == [t |-> "float", v |-> n]

IsDict(x) == x.t = "dict"
IsStr(x) == x.t = "str"
IsList(x) == x.t = "list"

\* key in d
Has(d, k) == \E i \in 1..Len(d.v) : d.v[i][1] = k
\* d[k]
At(d, k) == d.v[CHOOSE i \in 1..Len(d.v) : d.v[i][1] = k][2]
\* d.get(k, default)
GetOr(d, k, default) == IF Has(d, k) THEN At(d, k) ELSE default
\* d.get(k)
Get(d, k) == GetOr(d, k, Null)

\* isinstance(x, int): bool is a subclass of int
IsInt(x) == x.t \in {"int", "bool"}
\* isinstance(x, (int, float))
IsIntOrFloat(x) == x.t \in {"int", "bool", "float"}
\* The value of a number in hundredths (True is 1, False is 0).
Num100(x) ==
    CASE x.t = "int" -> 100 * x.v
      [] x.t = "float" -> x.v
      [] x.t = "bool" -> IF x.v THEN 100 ELSE 0
\* A value a set or dict cannot hold: `x in {...}` raises TypeError on it.
Unhashable(x) == x.t \in {"list", "dict"}
\* The keys of a dict, in insertion order.
Keys(d) == [i \in 1..Len(d.v) |-> d.v[i][1]]
\* The elements of a sequence, as a set.
Range(q) == {q[i] : i \in 1..Len(q)}

\* bool(x): Python truthiness
Truthy(x) ==
    CASE x.t = "null" -> FALSE
      [] x.t = "bool" -> x.v
      [] x.t = "int" -> x.v # 0
      [] x.t = "float" -> x.v # 0
      [] x.t = "str" -> x.v # ""
      [] x.t = "list" -> Len(x.v) > 0
      [] x.t = "dict" -> Len(x.v) > 0

\* str.upper() on the strings of the model
Upper(s) ==
    CASE s = "spy" -> "SPY"
      [] s = "tqqq" -> "TQQQ"
      [] s = "bsv" -> "BSV"
      [] s = " spy" -> " SPY"
      [] s = "Spy" -> "SPY"
      [] s = "Else branch" -> "ELSE BRANCH"
      [] s = "else branch" -> "ELSE BRANCH"
      [] s = " Else branch " -> " ELSE BRANCH "
      [] s = "Then branch" -> "THEN BRANCH"
      [] s = "else" -> "ELSE"
      [] s = "Else" -> "ELSE"
      [] s = " Else " -> " ELSE "
      [] s = " else " -> " ELSE "
      [] s = "Then" -> "THEN"
      [] s = "rsi" -> "RSI"
      [] s = " rsi " -> " RSI "
      [] s = "abc" -> "ABC"
      [] s = "a" -> "A"
      [] s = "b" -> "B"
      [] s = "c" -> "C"
      [] s = "s" -> "S"
      [] s = "p" -> "P"
      [] s = "y" -> "Y"
      [] s = "Group: growth" -> "GROUP: GROWTH"
      [] s = "Conditional logic container" -> "CONDITIONAL LOGIC CONTAINER"
      [] s = "Container" -> "CONTAINER"
      [] s = "Buy SPY" -> "BUY SPY"
      [] s = "Short" -> "SHORT"
      [] s = "Weighted" -> "WEIGHTED"
      [] s = "Order" -> "ORDER"
      [] s = "Group logic" -> "GROUP LOGIC"
      [] s = " Alternative branch" -> " ALTERNATIVE BRANCH"
      [] s = " alternative branch" -> " ALTERNATIVE BRANCH"
      [] s = "Alternative branch" -> "ALTERNATIVE BRANCH"
      [] s = "alternative branch" -> "ALTERNATIVE BRANCH"
      [] s = "group logic" -> "GROUP LOGIC"
      [] s = "order" -> "ORDER"
      [] s = "top" -> "TOP"
      [] s = "weighted" -> "WEIGHTED"
      [] s = "short" -> "SHORT"
      [] s = "long" -> "LONG"
      [] s = "buy spy" -> "BUY SPY"
      [] s = "container" -> "CONTAINER"
      [] s = "conditional logic container" -> "CONDITIONAL LOGIC CONTAINER"
      [] s = "group: growth" -> "GROUP: GROWTH"
      [] s = "then" -> "THEN"
      [] s = "then branch" -> "THEN BRANCH"
      [] s = " else branch " -> " ELSE BRANCH "
      [] s = "xyz" -> "XYZ"
      [] OTHER -> s

\* str.lower() on the strings of the model
Lower(s) ==
    CASE s = "SPY" -> "spy"
      [] s = "TQQQ" -> "tqqq"
      [] s = "BSV" -> "bsv"
      [] s = "XYZ" -> "xyz"
      [] s = " SPY" -> " spy"
      [] s = "Spy" -> "spy"
      [] s = "Else branch" -> "else branch"
      [] s = "ELSE BRANCH" -> "else branch"
      [] s = " Else branch " -> " else branch "
      [] s = "Then branch" -> "then branch"
      [] s = "Else" -> "else"
      [] s = "ELSE" -> "else"
      [] s = " Else " -> " else "
      [] s = "Then" -> "then"
      [] s = "RSI" -> "rsi"
      [] s = "Group: growth" -> "group: growth"
      [] s = "Conditional logic container" -> "conditional logic container"
      [] s = "Container" -> "container"
      [] s = "Buy SPY" -> "buy spy"
      [] s = "LONG" -> "long"
      [] s = "Short" -> "short"
      [] s = "Weighted" -> "weighted"
      [] s = "TOP" -> "top"
      [] s = "Order" -> "order"
      [] s = "Group logic" -> "group logic"
      [] s = " Alternative branch" -> " alternative branch"
      [] s = " ALTERNATIVE BRANCH" -> " alternative branch"
      [] s = "Alternative branch" -> "alternative branch"
      [] s = "ALTERNATIVE BRANCH" -> "alternative branch"
      [] s = "GROUP LOGIC" -> "group logic"
      [] s = "ORDER" -> "order"
      [] s = "WEIGHTED" -> "weighted"
      [] s = "SHORT" -> "short"
      [] s = "BUY SPY" -> "buy spy"
      [] s = "CONTAINER" -> "container"
      [] s = "CONDITIONAL LOGIC CONTAINER" -> "conditional logic container"
      [] s = "GROUP: GROWTH" -> "group: growth"
      [] s = "Y" -> "y"
      [] s = "P" -> "p"
      [] s = "S" -> "s"
      [] s = "C" -> "c"
      [] s = "B" -> "b"
      [] s = "A" -> "a"
      [] s = "ABC" -> "abc"
      [] s = " RSI " -> " rsi "
      [] s = "THEN" -> "then"
      [] s = " ELSE " -> " else "
      [] s = "THEN BRANCH" -> "then branch"
      [] s = " ELSE BRANCH " -> " else branch "
      [] OTHER -> s

\* str.strip() on the strings of the model
Strip(s) ==
    CASE s = " spy" -> "spy"
      [] s = " SPY" -> "SPY"
      [] s = " Else branch " -> "Else branch"
      [] s = " " -> ""
      [] s = " Else " -> "Else"
      [] s = " else " -> "else"
      [] s = " rsi " -> "rsi"
      [] s = " Alternative branch" -> "Alternative branch"
      [] s = " ALTERNATIVE BRANCH" -> "ALTERNATIVE BRANCH"
      [] s = " alternative branch" -> "alternative branch"
      [] s = " RSI " -> "RSI"
      [] s = " ELSE " -> "ELSE"
      [] s = " ELSE BRANCH " -> "ELSE BRANCH"
      [] s = " else branch " -> "else branch"
      [] OTHER -> s

\* str(x) of a scalar
PyStr(x) ==
    CASE x.t = "str" -> x.v
      [] x.t = "int" -> ToString(x.v)
      [] x.t = "bool" -> IF x.v THEN "True" ELSE "False"
      [] x.t = "null" -> "None"
      [] OTHER -> "<" \o x.t \o ">"

\* "_".join(parts)
RECURSIVE JoinUnderscore(_)
JoinUnderscore(parts) ==
    IF Len(parts) = 0 THEN ""
    ELSE IF Len(parts) = 1 THEN parts[1]
    ELSE parts[1] \o "_" \o JoinUnderscore(Tail(parts))


(***************************************************************************)
(* Indicator registry: generators/indicator_generator.py                   *)
(***************************************************************************)
IMPLEMENTED_INDICATORS ==
    {"rsi", "current-price", "cumulative-return", "moving-average-price",
     "exponential-moving-average-price", "moving-average-return",
     "standard-deviation-price", "standard-deviation-return", "max-drawdown",
     "volatility", "returns", "drawdown", "month", "day-of-week",
     "day-of-month", "day-of-year"}

CUSTOM_INDICATORS == {"max-drawdown", "drawdown", "moving-average-return"}

\* The registry of one IndicatorGenerator, as a value.
Registry(used, custom) == [indicators_used |-> used, custom_methods_needed |-> custom]

\* reset_variables
reset_variables == Registry(<<>>, {})

\* The key parts _create_indicator_key appends for the significant args.
SignificantParts(args) ==
    IF ~IsDict(args) THEN <<>> ELSE
    (IF Has(args, "period") THEN <<PyStr(At(args, "period"))>> ELSE <<>>)
    \o (IF Has(args, "smoothing") THEN <<"s" \o PyStr(At(args, "smoothing"))>> ELSE <<>>)
    \o (IF Has(args, "fast") /\ Has(args, "slow")
        THEN <<PyStr(At(args, "fast")), PyStr(At(args, "slow"))>> ELSE <<>>)

\* Whether _create_indicator_key raises: symbol.upper() on a truthy non-string, a
\* membership test on args that is no container, or args[...] on a list or string
\* that holds one of the names.
KeyRaises(symbol, args) ==
    \/ Truthy(symbol) /\ ~IsStr(symbol)
    \/ args.t \notin {"dict", "list", "str"}
    \/ args.t = "list" /\ \E i \in 1..Len(args.v) : args.v[i] \in {S("period"), S("smoothing")}
    \/ args.t = "str" /\ args.v \in {"period", "smoothing"}

\* A mutant of _create_indicator_key: the period is left out of the key.
create_indicator_key_no_period(name, symbol, args) ==
    IF KeyRaises(symbol, args)
    THEN [raised |-> TRUE, key |-> ""]
    ELSE [raised |-> FALSE,
          key |-> JoinUnderscore(
                    (IF Truthy(symbol) THEN <<name, Upper(symbol.v)>> ELSE <<name>>)
                    \o (IF IsDict(args) /\ Has(args, "smoothing")
                        THEN <<"s" \o PyStr(At(args, "smoothing"))>> ELSE <<>>))]

\* _create_indicator_key(name, symbol, args): [raised, key].  symbol.upper() raises
\* on a truthy non-string, 'period' in args raises when args is no container.
create_indicator_key(name, symbol, args) ==
    IF KeyRaises(symbol, args)
    THEN [raised |-> TRUE, key |-> ""]
    ELSE [raised |-> FALSE,
          key |-> JoinUnderscore(
                    (IF Truthy(symbol) THEN <<name, Upper(symbol.v)>> ELSE <<name>>)
                    \o SignificantParts(args))]

\* A mutant of DictStore: every registration appends an entry.
DictStoreAppend(used, entry) == Append(used, entry)

\* indicators_used[key] = entry on an insertion-ordered dict: an existing key keeps
\* its position and gets the new value, a new key is appended.
DictStore(used, entry) ==
    IF \E i \in 1..Len(used) : used[i].key = entry.key
    THEN [i \in 1..Len(used) |-> IF used[i].key = entry.key THEN entry ELSE used[i]]
    ELSE Append(used, entry)

\* _process_indicator(indicator_config) on registry reg: [raised, reg].
process_indicator(reg, cfg) ==
    LET name == Lower(PyStr(GetOr(cfg, "name", S("unknown"))))
        symbol == Get(cfg, "symbol")
        args == GetOr(cfg, "args", D(<<>>))
        k == create_indicator_key(name, symbol, args)
    IN  IF name \notin IMPLEMENTED_INDICATORS THEN [raised |-> FALSE, reg |-> reg]
        ELSE IF k.raised \/ symbol.t \notin {"null", "str"}
             THEN [raised |-> TRUE, reg |-> reg]
        ELSE [raised |-> FALSE,
              reg |-> Registry(
                  IF symbol # Null
                  THEN DictStore(reg.indicators_used,
                                 [key |-> k.key, name |-> name,
                                  symbol |-> Upper(symbol.v), args |-> args])
                  ELSE reg.indicators_used,
                  IF name \in CUSTOM_INDICATORS
                  THEN reg.custom_methods_needed \cup {name}
                  ELSE reg.custom_methods_needed)]

\* list(indicators_used): the keys in insertion order
KeyList(used) == [i \in 1..Len(used) |-> used[i].key]
KeySet(used) == {used[i].key : i \in 1..Len(used)}


\* str.replace('-', '_') on the strings of the model
Underscored(s) ==
    CASE s = "max-drawdown" -> "max_drawdown"
      [] s = "current-price" -> "current_price"
      [] s = "moving-average-price" -> "moving_average_price"
      [] s = "moving-average-return" -> "moving_average_return"
      [] s = "moving-avg-price" -> "moving_avg_price"
      [] s = "std-dev-price" -> "std_dev_price"
      [] s = "cumulative-return" -> "cumulative_return"
      [] s = "standard-deviation-price" -> "standard_deviation_price"
      [] s = "standard-deviation-return" -> "standard_deviation_return"
      [] s = "exponential-moving-average-price" -> "exponential_moving_average_price"
      [] s = "day-of-week" -> "day_of_week"
      [] s = "day-of-month" -> "day_of_month"
      [] s = "day-of-year" -> "day_of_year"
      [] OTHER -> s

\* The attribute stem of a native indicator in get_indicator_value_code.
NativeStem(indicator_name) ==
    CASE indicator_name = "moving-average-price" -> "sma"
      [] indicator_name = "exponential-moving-average-price" -> "ema"
      [] indicator_name = "rsi" -> "rsi"
      [] indicator_name \in {"standard-deviation-price", "volatility"} -> "std"
      [] indicator_name \in {"cumulative-return", "returns"} -> "roc"
      [] indicator_name = "standard-deviation-return" -> "std_dev_return"
      [] OTHER -> Underscored(Lower(indicator_name))

\* The default period of a custom indicator.
CustomDefaultPeriod(indicator_name) ==
    IF indicator_name = "moving-average-return" THEN I(20) ELSE I(252)

\* The attribute stem of a custom indicator.
CustomStem(indicator_name) ==
    CASE indicator_name = "max-drawdown" -> "max_drawdown"
      [] indicator_name = "drawdown" -> "drawdown"
      [] indicator_name = "moving-average-return" -> "moving_avg_return"

\* The access expression get_indicator_value_code returns after the registration.
ValueExpression(cfg) ==
    LET indicator_name == GetOr(cfg, "name", S(""))
        symbol == GetOr(cfg, "symbol", S(""))
        args == GetOr(cfg, "args", D(<<>>))
        n == IF IsStr(indicator_name) THEN indicator_name.v ELSE ""
        fail == [raised |-> TRUE, code |-> ""]
        ok(c) == [raised |-> FALSE, code |-> c]
    IN  CASE n = "month" -> ok("self.time.month")
          [] n = "day-of-week" -> ok("self.time.weekday()")
          [] n = "day-of-month" -> ok("self.time.day")
          [] n = "day-of-year" -> ok("self.time.timetuple().tm_yday")
          [] OTHER ->
             IF ~IsStr(symbol) \/ ~IsStr(indicator_name) THEN fail
             ELSE IF n = "current-price"
             THEN ok("self.securities['" \o Upper(symbol.v) \o "'].price")
             ELSE IF ~IsDict(args) THEN fail
             ELSE IF n \in CUSTOM_INDICATORS
             THEN ok("(self." \o Underscored(Lower(symbol.v)) \o "_" \o CustomStem(n) \o "_"
                     \o PyStr(GetOr(args, "period", CustomDefaultPeriod(n)))
                     \o ".current.value)")
             ELSE IF Has(args, "period")
             THEN ok("(self." \o Underscored(Lower(symbol.v)) \o "_" \o NativeStem(n) \o "_"
                     \o PyStr(At(args, "period")) \o ".current.value)")
             ELSE ok("(self." \o Underscored(Lower(symbol.v)) \o "_"
                     \o Underscored(Lower(n)) \o ".current.value)")

\* get_indicator_value_code(indicator_config) on registry reg: [raised, reg, code].
get_indicator_value_code(reg, cfg) ==
    LET p == process_indicator(reg, cfg)
        e == ValueExpression(cfg)
    IN  IF p.raised THEN [raised |-> TRUE, reg |-> reg, code |-> ""]
        ELSE [raised |-> e.raised, reg |-> p.reg, code |-> e.code]

\* The default period of an indicator in _generate_indicator_initialization.
InitDefaultPeriod(name) ==
    CASE name \in {"max-drawdown", "drawdown"} -> I(252)
      [] name \in {"moving-average-return", "moving-average-price",
                   "exponential-moving-average-price"} -> I(20)
      [] name = "rsi" -> I(14)
      [] name \in {"cumulative-return", "returns"} -> I(1)
      [] OTHER -> I(30)

\* What _generate_indicator_initialization assigns to the attribute of an indicator
\* of period `period` on `symbol`.
InitValue(name, symbol, period) ==
    CASE name = "max-drawdown" -> "MaxDrawdownIndicator(" \o period \o ")"
      [] name = "drawdown" -> "DrawdownIndicator(" \o period \o ")"
      [] name = "moving-average-return" -> "MovingAvgReturnIndicator(" \o period \o ")"
      [] name = "standard-deviation-return" ->
         "IndicatorExtensions.of(StandardDeviation(" \o period \o "), self.roc('"
             \o symbol \o "', 1))"
      [] OTHER ->
         "self." \o NativeStem(name) \o "('" \o symbol \o "', " \o period \o ")"

\* The attribute _generate_indicator_initialization assigns for an entry of
\* indicators_used whose args are a dict.
InitAttribute(config) ==
    "self." \o Underscored(Lower(config.symbol)) \o "_"
        \o (IF config.name \in CUSTOM_INDICATORS THEN CustomStem(config.name)
            ELSE NativeStem(config.name))
        \o "_" \o PyStr(GetOr(config.args, "period", InitDefaultPeriod(config.name)))

\* _generate_indicator_initialization(indicator_key, config) for an entry of
\* indicators_used: [raised, line], the line being Null when the indicator needs none.
_generate_indicator_initialization(config) ==
    LET name == config.name
        symbol == config.symbol
        args == config.args
        clean_symbol == Underscored(Lower(symbol))
        ok(line) == [raised |-> FALSE, line |-> line]
    IN  CASE name = "current-price" ->
             ok(S("self." \o clean_symbol \o "_" \o Underscored(Lower(name))
                  \o " = self.identity('" \o symbol \o "')"))
          [] name \in {"month", "day-of-week", "day-of-month", "day-of-year"} -> ok(Null)
          [] OTHER ->
             IF ~IsDict(args) THEN [raised |-> TRUE, line |-> Null]
             ELSE ok(S(InitAttribute(config) \o " = "
                       \o InitValue(name, symbol,
                                    PyStr(GetOr(args, "period", InitDefaultPeriod(name))))))

\* generate_initialization_code() on registry reg: [raised, code], the code as lines.
generate_initialization_code(reg) ==
    LET used == reg.indicators_used
        inits == [i \in 1..Len(used) |-> _generate_indicator_initialization(used[i])]
        kept == SelectSeq(inits, LAMBDA r : Truthy(r.line))
    IN  IF used = <<>>
        THEN [raised |-> FALSE, code |-> <<"        # No indicators needed">>]
        ELSE IF \E i \in 1..Len(inits) : inits[i].raised
        THEN [raised |-> TRUE, code |-> <<>>]
        ELSE [raised |-> FALSE,
              code |-> <<"        # Initialize indicators with automatic warm-up support",
                         "        self.settings.automatic_indicator_warm_up = True",
                         "">>
                       \o [i \in 1..Len(kept) |-> "        " \o kept[i].line.v]]


(***************************************************************************)
(* Metric configurations the registry is driven with.                      *)
(***************************************************************************)
Metric(name, symbol, args) == D(<< <<"name", name>>, <<"symbol", symbol>>, <<"args", args>> >>)

ArgsNone == D(<<>>)
ArgsP20 == D(<< <<"period", I(20)>> >>)
ArgsP50 == D(<< <<"period", I(50)>> >>)
ArgsP20Extra == D(<< <<"period", I(20)>>, <<"extra", I(1)>> >>)
ArgsP20Full == D(<< <<"period", I(20)>>, <<"smoothing", I(2)>>, <<"fast", I(12)>>, <<"slow", I(26)>> >>)
ArgsP50Full == D(<< <<"period", I(50)>>, <<"smoothing", I(2)>>, <<"fast", I(12)>>, <<"slow", I(26)>> >>)
ArgsFastOnly == D(<< <<"fast", I(12)>>, <<"extra", I(1)>> >>)

RegConfigs ==
    {Metric(S(n), sym, a) :
        n \in {"rsi", "max-drawdown", "sma"},
        sym \in {S("spy"), S("SPY"), Absent},
        a \in {ArgsNone, ArgsP20, ArgsP20Extra, Null}}

KeyConfigs ==
    {Metric(S(n), sym, a) :
        n \in {"rsi", "max-drawdown"},
        sym \in {S("spy"), S("SPY"), S("TQQQ"), Absent},
        a \in {ArgsNone, ArgsP20, ArgsP50, ArgsP20Extra, ArgsP20Full, ArgsP50Full,
               ArgsFastOnly}}

\* The key _process_indicator builds for a configuration.
KeyOf(cfg) ==
    create_indicator_key(Lower(PyStr(GetOr(cfg, "name", S("unknown")))),
                         Get(cfg, "symbol"), GetOr(cfg, "args", D(<<>>)))

(***************************************************************************)
(* The registry as a state machine.                                        *)
(***************************************************************************)
InitRegistry == IdleRegistry /\ IdleExceptRegistry

\* One get_indicator_value_code(cfg) call (it registers through _process_indicator).
GetIndicatorValueCode(cfg) ==
    /\ Len(reg_calls) < MaxCalls
    /\ LET r == get_indicator_value_code(Registry(indicators_used, custom_methods_needed), cfg)
       IN  /\ indicators_used' = r.reg.indicators_used
           /\ custom_methods_needed' = r.reg.custom_methods_needed
    /\ reg_prev' = indicators_used
    /\ reg_calls' = Append(reg_calls, cfg)
    /\ UNCHANGED exceptRegistry

\* reset_variables()
ResetVariables ==
    /\ reg_calls # <<>>
    /\ indicators_used' = reset_variables.indicators_used
    /\ custom_methods_needed' = reset_variables.custom_methods_needed
    /\ reg_prev' = <<>>
    /\ reg_calls' = <<>>
    /\ UNCHANGED exceptRegistry

NextRegistry ==
    \/ \E cfg \in RegConfigs : GetIndicatorValueCode(cfg)
    \/ ResetVariables

SpecRegistry == InitRegistry /\ [][NextRegistry]_vars

\* The keys of the configurations registered since the reset that _process_indicator
\* stores: implemented name, a symbol, a key that could be built.
StoredKeys ==
    {KeyOf(reg_calls[i]).key : i \in {j \in 1..Len(reg_calls) :
        /\ Lower(PyStr(GetOr(reg_calls[j], "name", S("unknown")))) \in IMPLEMENTED_INDICATORS
        /\ Get(reg_calls[j], "symbol") # Null
        /\ ~KeyOf(reg_calls[j]).raised}}

\* C1: registration is idempotent.  (a) A registration that repeats the one before it
\* leaves the entries' number and keys unchanged; (b) from every reachable registry,
\* registering any configuration twice gives the same number of entries and the same
\* key set as registering it once; (c) the registry holds exactly one entry per
\* distinct canonical key registered since the reset.
C1_IdempotentRegistration ==
    /\ (Len(reg_calls) >= 2 /\ reg_calls[Len(reg_calls)] = reg_calls[Len(reg_calls) - 1])
          => KeyList(indicators_used) = KeyList(reg_prev)
    /\ \A cfg \in RegConfigs :
          LET reg == Registry(indicators_used, custom_methods_needed)
              once == process_indicator(reg, cfg).reg
              twice == process_indicator(once, cfg).reg
          IN  /\ Len(twice.indicators_used) = Len(once.indicators_used)
              /\ KeySet(twice.indicators_used) = KeySet(once.indicators_used)
    /\ KeySet(indicators_used) = StoredKeys
    /\ Len(indicators_used) = Cardinality(StoredKeys)

\* C1 witness: the same configuration was registered twice in a row and holds one entry.
C1_Witness ==
    /\ Len(reg_calls) = 2
    /\ reg_calls[1] = reg_calls[2]
    /\ reg_calls[1] = Metric(S("rsi"), S("SPY"), ArgsP20)
    /\ Len(indicators_used) = 1
    /\ indicators_used[1].key = "rsi_SPY_20"

(***************************************************************************)
(* _create_indicator_key applied to pairs of configurations.               *)
(***************************************************************************)
InitKey ==
    /\ key_cfgs \in KeyConfigs \X KeyConfigs
    /\ key_out = <<>>
    /\ IdleExceptKey

CreateIndicatorKeys ==
    /\ key_out = <<>>
    /\ key_out' = <<KeyOf(key_cfgs[1]), KeyOf(key_cfgs[2])>>
    /\ UNCHANGED <<key_cfgs, exceptKey>>

NextKey == CreateIndicatorKeys

SpecKey == InitKey /\ [][NextKey]_vars

\* The significant part of a configuration as the claim names it: name, symbol up to
\* letter case, period, smoothing and the (fast, slow) pair.
SigPeriod(cfg) == Get(GetOr(cfg, "args", D(<<>>)), "period")
SigSmoothing(cfg) == Get(GetOr(cfg, "args", D(<<>>)), "smoothing")
SigFastSlow(cfg) ==
    LET args == GetOr(cfg, "args", D(<<>>))
    IN  IF Has(args, "fast") /\ Has(args, "slow")
        THEN <<At(args, "fast"), At(args, "slow")>> ELSE <<>>
SameNameSymbol(a, b) ==
    /\ Get(a, "name") = Get(b, "name")
    /\ Get(a, "symbol").t = Get(b, "symbol").t
    /\ IsStr(Get(a, "symbol")) => Upper(Get(a, "symbol").v) = Upper(Get(b, "symbol").v)

\* C2: configurations with the same name, the same symbol up to letter case and the
\* same period, smoothing and (fast, slow) pair get the same key whatever their other
\* args; configurations with the same name and symbol that differ in period get
\* different keys.
C2_KeyDiscrimination ==
    key_out # <<>> =>
        LET a == key_cfgs[1]
            b == key_cfgs[2]
        IN  /\ ~key_out[1].raised /\ ~key_out[2].raised
            /\ (/\ SameNameSymbol(a, b)
                /\ SigPeriod(a) = SigPeriod(b)
                /\ SigSmoothing(a) = SigSmoothing(b)
                /\ SigFastSlow(a) = SigFastSlow(b))
                  => key_out[1].key = key_out[2].key
            /\ (SameNameSymbol(a, b) /\ SigPeriod(a) # SigPeriod(b))
                  => key_out[1].key # key_out[2].key

\* C2 witness: keys were computed for two configurations that differ in symbol case
\* and in an insignificant arg, and for two that differ in period only.
C2_Witness ==
    /\ key_out # <<>>
    /\ key_cfgs[1] = Metric(S("rsi"), S("spy"), ArgsP20)
    /\ key_cfgs[2] = Metric(S("rsi"), S("SPY"), ArgsP20Extra)
    /\ key_out[1].key = "rsi_SPY_20"
    /\ key_out[2].key = "rsi_SPY_20"


(***************************************************************************)
(* Logic validator: validators/logic_validator.py                          *)
(* A validator returns [raised, is_valid, errors]; raised means the call   *)
(* ended in an exception instead of returning.                             *)
(***************************************************************************)
Err(msg) == [msg |-> msg, syms |-> {}]
ErrSyms(msg, syms) == [msg |-> msg, syms |-> syms]
If(c, errs) == IF c THEN errs ELSE <<>>
Returned(errors) == [raised |-> FALSE, is_valid |-> Len(errors) = 0, errors |-> errors]
Raised == [raised |-> TRUE, is_valid |-> FALSE, errors |-> <<>>]

\* The characters of a string, for `for s in universe` over a str.
Chars(s) ==
    CASE s = "SPY" -> <<"S", "P", "Y">>
      [] s = "spy" -> <<"s", "p", "y">>
      [] s = "abc" -> <<"a", "b", "c">>
      [] s = "ab" -> <<"a", "b">>
      [] s = "" -> <<>>
      [] OTHER -> <<s>>

\* float(v) of a weight: [ok, w] with w in hundredths.
FloatOf(v) ==
    CASE v.t \in {"int", "float"} -> [ok |-> TRUE, w |-> Num100(v)]
      [] v = S("0.5") -> [ok |-> TRUE, w |-> 50]
      [] v = S("-1") -> [ok |-> TRUE, w |-> -100]
      [] OTHER -> [ok |-> FALSE, w |-> 0]

\* The loop over weights.items() of validate_order_node from item i on; w is the
\* local variable w: [bound, val].  A weight float() rejects is reported, and the
\* comparison w < 0 that follows reads w: unbound on the first pass (UnboundLocalError),
\* the value of the pass before otherwise.
RECURSIVE WeightsLoop(_, _, _)
WeightsLoop(items, i, w) ==
    IF i > Len(items) THEN [raised |-> FALSE, errors |-> <<>>]
    ELSE LET v == items[i][2]
             f == FloatOf(v)
         IN  IF v.t \in {"list", "dict", "bool"}
             THEN LET rest == WeightsLoop(items, i + 1, w)
                  IN  [raised |-> rest.raised,
                       errors |-> <<Err("Weight must be a number")>> \o rest.errors]
             ELSE IF ~f.ok /\ ~w.bound THEN [raised |-> TRUE, errors |-> <<>>]
             ELSE LET w2 == IF f.ok THEN [bound |-> TRUE, val |-> f.w] ELSE w
                      rest == WeightsLoop(items, i + 1, w2)
                  IN  [raised |-> rest.raised,
                       errors |-> If(~f.ok, <<Err("Weight must be a number")>>)
                                  \o If(w2.val < 0, <<Err("Weight must be >= 0")>>)
                                  \o rest.errors]

\* A mutant of MissingWeights: weights are demanded under weighted allocation only.
MissingWeightsWeightedOnly(node, symbols, weight_syms) ==
    IF Get(node, "allocation") = S("weighted") THEN symbols \ weight_syms ELSE {}

\* missing_weights of validate_order_node: every referenced symbol without a weight,
\* whatever the allocation.
MissingWeights(node, symbols, weight_syms) == symbols \ weight_syms

\* validate_order_node(node, allowed_tickers)
validate_order_node(node, allowed_tickers) ==
    IF ~IsDict(node) THEN Returned(<<Err("order node must be a dict")>>)
    ELSE IF Get(node, "type") # S("order") THEN Returned(<<Err("node.type must be 'order'")>>)
    ELSE
    LET id_string == Get(node, "id")
        side == Get(node, "side")
        size_type == GetOr(node, "size_type", S("percent_equity"))
        allocation == GetOr(node, "allocation", S("equal"))
        weights == IF Truthy(Get(node, "weights")) THEN Get(node, "weights") ELSE D(<<>>)
        symbol_filter == Get(node, "symbol_filter")
        universe == IF Truthy(Get(node, "universe")) THEN Get(node, "universe") ELSE L(<<>>)
        weight_syms == IF IsDict(weights) THEN {Upper(k) : k \in Range(Keys(weights))} ELSE {}
        universe_items ==
            CASE universe.t = "list" -> universe.v
              [] universe.t = "str" -> [i \in 1..Len(Chars(universe.v)) |-> S(Chars(universe.v)[i])]
              [] universe.t = "dict" -> [i \in 1..Len(universe.v) |-> S(universe.v[i][1])]
              [] OTHER -> <<>>
        symbols ==
            weight_syms
            \cup (IF Truthy(symbol_filter) THEN {Upper(PyStr(symbol_filter))} ELSE {})
            \cup {Upper(x.v) : x \in {y \in Range(universe_items) : IsStr(y)}}
        allowed == {Upper(a) : a \in allowed_tickers}
        invalid == symbols \ allowed
        missing_weights == MissingWeights(node, symbols, weight_syms)
        loop == IF IsDict(weights) THEN WeightsLoop(weights.v, 1, [bound |-> FALSE, val |-> 0])
                ELSE [raised |-> FALSE, errors |-> <<>>]
        raises ==
            \/ Unhashable(size_type)                         \* size_type not in {...}
            \/ Truthy(weights) /\ ~IsDict(weights)           \* weights.keys()
            \/ universe.t \in {"int", "float", "bool"}       \* for s in universe
            \/ \E x \in Range(universe_items) : ~IsStr(x)    \* s.upper()
            \/ loop.raised
        errors ==
            If(Truthy(id_string) /\ ~IsStr(id_string), <<Err("order.id must be a string when provided")>>)
            \o If(~IsStr(side), <<Err("order.side must be a string")>>)
            \o If(~IsStr(side) \/ side.v \notin {"long", "short"},
                  <<Err("order.side must be 'long' or 'short'")>>)
            \o If(~IsStr(size_type)
                  \/ size_type.v \notin {"percent_equity", "fixed_qty", "fixed_value", "risk_based"},
                  <<Err("order.size_type must be one of")>>)
            \o If(~IsStr(allocation), <<Err("order.allocation must be a string")>>)
            \o If(~IsStr(allocation) \/ allocation.v \notin {"equal", "weighted", "custom"},
                  <<Err("order.allocation must be one of")>>)
            \o If(Has(node, "size") /\ ~IsIntOrFloat(At(node, "size")),
                  <<Err("order.size must be a number when provided")>>)
            \o If(Has(node, "size") /\ IsIntOrFloat(At(node, "size")) /\ Num100(At(node, "size")) < 0,
                  <<Err("order.size must be >= 0")>>)
            \o If(~IsDict(weights), <<Err("order.weights must be an object/dict when provided")>>)
            \o If(Truthy(universe) /\ (~IsList(universe) \/ \E x \in Range(universe.v) : ~IsStr(x)),
                  <<Err("order.universe must be an array of strings when provided")>>)
            \o If(symbols = {}, <<Err("No symbols found")>>)
            \o If(invalid # {}, <<ErrSyms("Symbols not allowed", invalid)>>)
            \o If(missing_weights # {}, <<ErrSyms("Missing weight(s) for", missing_weights)>>)
            \o loop.errors
    IN  IF raises THEN Raised ELSE Returned(errors)

_SCHEMA_NODE_TYPES == {"group", "condition", "filter", "order", "exit", "expression", "weight"}
_CONDITION_OPS == {"gt", "gte", "lt", "lte", "eq", "neq", "crosses_above", "crosses_below"}
DEFAULT_ALLOWED_METRICS ==
    {"current-price", "sma", "ema", "rsi", "cumulative-return", "moving-avg-price",
     "moving-avg-return", "std-dev-price", "std-dev-return", "max-drawdown", "volatility",
     "returns", "drawdown", "vix", "month", "day-of-week", "day-of-month", "day-of-year",
     "moving-average-price", "exponential-moving-average-price", "standard-deviation-price"}
METRICS_REQUIRE_PERIOD ==
    {"sma", "ema", "rsi", "moving-avg-price", "moving-avg-return", "std-dev-price",
     "std-dev-return", "volatility", "returns", "drawdown"}

\* isinstance(x, str) and x.strip(): a non-blank string
NonBlankStr(x) == IsStr(x) /\ Strip(x.v) # ""
\* not isinstance(period, int) or period <= 0
BadPeriod(period) == ~IsInt(period) \/ Num100(period) <= 0

\* The errors of one child in the loop of validate_group_node (the child is a dict
\* whose type can be hashed).
GroupChildErrors(child) ==
    LET ctype == Get(child, "type")
    IN  If(~IsStr(ctype), <<Err("group.child.type must be a string")>>)
        \o If(~IsStr(ctype) \/ ctype.v \notin _SCHEMA_NODE_TYPES,
              <<Err("group.child.type is not allowed here")>>)

\* The errors of the loop of validate_group_node over the children.
RECURSIVE GroupChildrenErrors(_)
GroupChildrenErrors(children) ==
    IF children = <<>> THEN <<>>
    ELSE GroupChildErrors(Head(children)) \o GroupChildrenErrors(Tail(children))

\* validate_group_node(node, require_children=..., require_description=...)
validate_group_node(node, require_children, require_description) ==
    IF ~IsDict(node) THEN Returned(<<Err("group node must be a dict")>>)
    ELSE
    LET node_id == Get(node, "id")
        desc == Get(node, "description")
        children == IF GetOr(node, "children", L(<<>>)) = Null THEN L(<<>>)
                    ELSE GetOr(node, "children", L(<<>>))
        raises ==
            \/ children.t \in {"int", "float", "bool"}       \* len(children), enumerate(children)
            \/ children.t = "str" /\ children.v # ""         \* child.get on a character
            \/ children.t = "dict" /\ children.v # <<>>      \* child.get on a key
            \/ /\ IsList(children)
               /\ \E c \in Range(children.v) :
                     ~IsDict(c) \/ Unhashable(Get(c, "type"))  \* child.get, ctype not in set
        errors ==
            If(Get(node, "type") # S("group"), <<Err("node.type must be 'group'")>>)
            \o If(node_id # Null /\ ~IsStr(node_id), <<Err("group.id must be a string when provided")>>)
            \o (IF require_description
                THEN If(~NonBlankStr(desc),
                        <<Err("group.description is required and must be a non-empty string")>>)
                ELSE If(desc # Null /\ ~IsStr(desc),
                        <<Err("group.description must be a string when provided")>>))
            \o If(require_children /\ ~IsList(children),
                  <<Err("group.children must be an array when provided")>>)
            \o If(require_children /\ Len(children.v) = 0,
                  <<Err("group must contain at least one child")>>)
            \o If(~IsList(children), <<Err("group.children must be an array if present")>>)
            \o (IF IsList(children) THEN GroupChildrenErrors(children.v) ELSE <<>>)
    IN  IF raises THEN Raised ELSE Returned(errors)

\* The knobs of validate_condition_node at their defaults.
ConditionDefaults ==
    [allowed_metrics |-> Null, allowed_symbols |-> Null, require_symbol_for_metrics |-> TRUE,
     validate_else |-> TRUE, else_required |-> FALSE, else_label |-> "Else branch",
     else_must_be_last |-> TRUE, else_require_children |-> TRUE]

\* _validate_metric(m, side) for a dict m: [kind, errors]
_validate_metric(m, k) ==
    LET name == Get(m, "name")
        lname == Lower(Strip(name.v))
        args0 == GetOr(m, "args", D(<<>>))
        args == IF IsDict(args0) THEN args0 ELSE D(<<>>)
        sym == Get(m, "symbol")
        sym_norm == IF NonBlankStr(sym) THEN S(Upper(Strip(sym.v))) ELSE Null
        allowed_metrics_set ==
            IF Truthy(k.allowed_metrics) THEN {Lower(x.v) : x \in Range(k.allowed_metrics.v)} ELSE {}
        allowed_symbols_set ==
            IF Truthy(k.allowed_symbols) THEN {Upper(x.v) : x \in Range(k.allowed_symbols.v)} ELSE {}
    IN  IF ~NonBlankStr(name)
        THEN [kind |-> "invalid", errors |-> <<Err("metric.name must be a non-empty string")>>]
        ELSE [kind |-> "metric",
              errors |->
                If(Truthy(k.allowed_metrics) /\ lname \notin allowed_metrics_set,
                   <<Err("metric.name is not in allowed_metrics")>>)
                \o If(args0 # Null /\ ~IsDict(args0), <<Err("metric.args must be a dict when provided")>>)
                \o If(k.require_symbol_for_metrics /\ ~NonBlankStr(sym),
                      <<Err("metric.symbol is required and must be a non-empty string")>>)
                \o If(Truthy(k.allowed_symbols) /\ sym_norm # Null
                      /\ sym_norm.v \notin allowed_symbols_set,
                      <<Err("symbol is not in allowed_symbols")>>)
                \o If(lname \in {"moving-average-price", "rsi"} /\ BadPeriod(Get(args, "period")),
                      <<Err("metric requires args.period as positive int")>>)]

\* _parse_operand(x, side): [kind, errors]
_parse_operand(x, k) ==
    IF IsDict(x) /\ Has(x, "name") THEN _validate_metric(x, k)
    ELSE IF x.t \in {"int", "float"} THEN [kind |-> "literal", errors |-> <<>>]
    ELSE [kind |-> "invalid",
          errors |-> <<Err("operand must be a metric object or a numeric literal")>>]

\* _is_else_group(c) with label_norm = (else_label or "").strip().lower()
_is_else_group(c, else_label) ==
    /\ IsDict(c)
    /\ Get(c, "type") = S("group")
    /\ IsStr(Get(c, "description"))
    /\ Lower(Strip(Get(c, "description").v)) = Lower(Strip(else_label))

\* [i for i, c in enumerate(children) if _is_else_group(c)], 0-based
else_idxs(children, else_label) ==
    SelectSeq([i \in 1..Len(children) |-> i - 1],
              LAMBDA i : _is_else_group(children[i + 1], else_label))

\* A mutant of CrossesNeedsMetrics: one metric operand is enough.
CrossesNeedsOneMetric(lhs_kind, rhs_kind) == lhs_kind # "metric" /\ rhs_kind # "metric"

\* The test under crosses_above / crosses_below: an operand that is not a metric.
CrossesNeedsMetrics(lhs_kind, rhs_kind) == lhs_kind # "metric" \/ rhs_kind # "metric"

\* A mutant of ElseNotLast: the else branch is compared with the first position.
ElseNotFirst(idx, children) == idx # 0

\* idx != len(children) - 1
ElseNotLast(idx, children) == idx # Len(children) - 1

\* The else-branch block of validate_condition_node (under validate_else).
ElseErrors(node, k) ==
    LET children0 == GetOr(node, "children", L(<<>>))
        children == IF IsList(children0) THEN children0.v ELSE <<>>
        idxs == else_idxs(children, k.else_label)
        idx == idxs[1]
        eb0 == GetOr(children[idx + 1], "children", L(<<>>))
        eb_children == IF IsList(eb0) THEN eb0.v ELSE <<>>
    IN  If(children0 # Null /\ ~IsList(children0),
           <<Err("condition.children must be an array when provided")>>)
        \o If(k.else_required /\ idxs = <<>>,
              <<Err("condition requires an Else branch group but none was found")>>)
        \o If(Len(idxs) > 1,
              <<Err("condition has multiple Else branch groups; only one is allowed")>>)
        \o (IF idxs = <<>> THEN <<>>
            ELSE If(k.else_must_be_last /\ ElseNotLast(idx, children),
                    <<Err("Else branch must be the last direct child of the condition")>>)
                 \o If(eb0 # Null /\ ~IsList(eb0), <<Err("Else branch 'children' must be an array")>>)
                 \o If(k.else_require_children /\ eb_children = <<>>,
                       <<Err("Else branch must contain at least one child")>>)
                 \o If(Len(children) - 1 < 1,
                       <<Err("Condition must have at least one non-Else child as the THEN branch")>>))

\* validate_condition_node(node, **knobs)
validate_condition_node(node, k) ==
    IF ~IsDict(node) THEN Returned(<<Err("condition node must be a dict")>>)
    ELSE
    LET hasL == Has(node, "lhs")
        hasO == Has(node, "operator")
        flag_check_for_operator == hasL \/ hasO
        op0 == Get(node, "operator")
        op == IF flag_check_for_operator /\ ~IsStr(op0) THEN "" ELSE IF IsStr(op0) THEN op0.v ELSE ""
        lhs_norm == IF hasL THEN _parse_operand(At(node, "lhs"), k)
                    ELSE [kind |-> "invalid", errors |-> <<>>]
        rhs_norm == IF Has(node, "rhs") THEN _parse_operand(At(node, "rhs"), k)
                    ELSE [kind |-> "invalid", errors |-> <<>>]
        node_id == Get(node, "id")
        desc == Get(node, "description")
        errors ==
            If(Get(node, "type") # S("condition"), <<Err("node.type must be 'condition'")>>)
            \o If(hasL # hasO, <<Err("All two of condition.lhs, and condition.operator are required")>>)
            \o If(flag_check_for_operator /\ ~IsStr(op0), <<Err("condition.operator must be a string")>>)
            \o If(flag_check_for_operator /\ op \notin _CONDITION_OPS,
                  <<Err("condition.operator must be one of")>>)
            \o lhs_norm.errors
            \o rhs_norm.errors
            \o If(flag_check_for_operator /\ op \in {"crosses_above", "crosses_below"}
                  /\ CrossesNeedsMetrics(lhs_norm.kind, rhs_norm.kind),
                  <<Err("requires both lhs and rhs to be metrics (no literals)")>>)
            \o If(flag_check_for_operator /\ op \in {"gt", "gte", "lt", "lte", "eq", "neq"}
                  /\ lhs_norm.kind = "literal" /\ rhs_norm.kind = "literal",
                  <<Err("requires at least one operand to be a metric")>>)
            \o If(node_id # Null /\ ~IsStr(node_id), <<Err("condition.id must be a string when provided")>>)
            \o If(desc # Null /\ ~IsStr(desc), <<Err("condition.description must be a string when provided")>>)
            \o (IF k.validate_else THEN ElseErrors(node, k) ELSE <<>>)
    IN  Returned(errors)

\* The normalised universe of validate_filter_node: stripped, uppercased, the first
\* occurrence of each symbol kept, blanks dropped.
RECURSIVE NormUniverse(_, _)
NormUniverse(raw, seen) ==
    IF raw = <<>> THEN <<>>
    ELSE LET sym == Upper(Strip(Head(raw).v))
         IN  IF sym # "" /\ sym \notin seen
             THEN <<sym>> \o NormUniverse(Tail(raw), seen \cup {sym})
             ELSE NormUniverse(Tail(raw), seen)

\* A mutant of ExceedsUniverse: n is never compared with the universe.
ExceedsUniverseNever(n, universe) == FALSE

\* isinstance(n, int) and n > len(universe) and len(universe) > 0
ExceedsUniverse(n, universe) ==
    IsInt(n) /\ Num100(n) > 100 * Len(universe) /\ Len(universe) > 0

\* validate_filter_node(node, allowed_metrics=None, allowed_symbols=..., require_universe_nonempty=...)
\* allowed_symbols is Null (None) or a list of strings.
validate_filter_node(node, allowed_symbols, require_universe_nonempty) ==
    IF ~IsDict(node) THEN Raised                      \* return False. errors
    ELSE
    LET node_id == Get(node, "id")
        desc == Get(node, "description")
        raw0 == GetOr(node, "universe", L(<<>>))
        universe_ok == raw0 = Null \/ (IsList(raw0) /\ \A x \in Range(raw0.v) : IsStr(x))
        universe == IF IsList(raw0) /\ universe_ok THEN NormUniverse(raw0.v, {}) ELSE <<>>
        allowed_set == IF allowed_symbols = Null THEN {}
                       ELSE {Upper(Strip(a.v)) : a \in Range(allowed_symbols.v)}
        select == Get(node, "select")
        selection0 == GetOr(node, "selection", D(<<>>))
        selection == IF IsDict(selection0) THEN selection0 ELSE D(<<>>)
        n == Get(selection, "n")
        metric == Get(node, "metric")
        metric_name0 == Get(metric, "name")
        name_ok == NonBlankStr(metric_name0)
        metric_name == IF name_ok THEN S(Lower(Strip(metric_name0.v))) ELSE metric_name0
        args0 == GetOr(metric, "args", D(<<>>))
        metric_args == IF IsDict(args0) THEN args0 ELSE D(<<>>)
        raises ==
            \/ Unhashable(select)                              \* select not in {...}
            \/ IsDict(metric) /\ Unhashable(metric_name0)      \* metric_name in METRICS_REQUIRE_PERIOD
        metric_errors ==
            IF ~IsDict(metric) THEN <<Err("filter.metric must be an object")>>
            ELSE If(~name_ok, <<Err("filter.metric.name must be a non-empty string")>>)
                 \o If(name_ok /\ metric_name.v \notin DEFAULT_ALLOWED_METRICS,
                       <<Err("filter.metric.name is not allowed")>>)
                 \o If(NonBlankStr(Get(metric, "symbol")),
                       <<Err("filter.metric.symbol should not be provided for a filter")>>)
                 \o If(args0 # Null /\ ~IsDict(args0),
                       <<Err("filter.metric.args must be an object when provided")>>)
                 \o If(IsStr(metric_name) /\ metric_name.v \in METRICS_REQUIRE_PERIOD
                       /\ BadPeriod(Get(metric_args, "period")),
                       <<Err("filter.metric requires 'args.period' as a positive integer")>>)
        errors ==
            If(Get(node, "type") # S("filter"), <<Err("node.type must be 'filter'")>>)
            \o If(node_id # Null /\ ~IsStr(node_id), <<Err("filter.id must be a string when provided")>>)
            \o If(desc # Null /\ ~IsStr(desc), <<Err("filter.description must be a string when provided")>>)
            \o If(~universe_ok, <<Err("filter.universe must be an array of strings")>>)
            \o If(require_universe_nonempty /\ universe = <<>>,
                  <<Err("filter.universe must contain at least one symbol")>>)
            \o If(allowed_symbols # Null /\ Range(universe) \ allowed_set # {},
                  <<ErrSyms("filter.universe contains symbols not allowed", Range(universe) \ allowed_set)>>)
            \o If(~IsStr(select) \/ select.v \notin {"top", "bottom", "middle"},
                  <<Err("filter.select must be one of: 'top', 'bottom', 'middle'")>>)
            \o If(~IsDict(selection0), <<Err("filter.selection must be an object with at least 'n'")>>)
            \o If(BadPeriod(n), <<Err("filter.selection.n must be a positive integer")>>)
            \o If(ExceedsUniverse(n, universe), <<Err("filter.selection.n cannot exceed universe size")>>)
            \o metric_errors
    IN  IF raises THEN Raised ELSE Returned(errors)

\* validate_weight_node(node, allowed_symbols): node.get("type") runs before the
\* isinstance test, so a node that is not a dict raises AttributeError.
validate_weight_node(node) ==
    IF ~IsDict(node) THEN Raised
    ELSE Returned(
           If(Get(node, "type") # S("weight"), <<Err("Weight node must be a type 'weight'")>>)
           \o (IF Get(node, "allocation_method") = Null
               THEN <<Err("Weight node must have an allocation_method")>>
               ELSE If(Get(node, "allocation_method")
                         \notin {S("explicit_weights"), S("inverse_volatility")},
                       <<Err("Weight node allocation_method must be one of")>>)))

(***************************************************************************)
(* The node validators applied to bounded sets of nodes and arguments.     *)
(***************************************************************************)
allowed_symbols == {"TQQQ", "SQQQ", "BSV", "SPY"}
AllowedList == L(<<S("TQQQ"), S("SQQQ"), S("BSV"), S("SPY")>>)

NotANode == {S("x"), Null, L(<<>>), I(5)}

OrderNode(side, allocation, weights, symbol_filter, universe) ==
    D(<< <<"type", S("order")>>, <<"side", side>>, <<"allocation", allocation>>,
         <<"weights", weights>>, <<"symbol_filter", symbol_filter>>, <<"universe", universe>> >>)
WeightsValues ==
    {Absent, D(<<>>), D(<< <<"SPY", Fl(50)>> >>), D(<< <<"spy", I(1)>> >>),
     D(<< <<"SPY", Fl(50)>>, <<"TQQQ", Fl(50)>> >>), D(<< <<"SPY", S("abc")>> >>),
     D(<< <<"SPY", Fl(-100)>> >>), D(<< <<"SPY", Fl(50)>>, <<"TQQQ", Null>> >>),
     L(<<S("SPY")>>)}
UniverseValues ==
    {Absent, L(<<S("SPY"), S("TQQQ")>>), L(<<S("spy")>>), L(<<S("SPY"), I(1)>>), S("SPY"), I(5),
     L(<<S("XYZ")>>)}
OrderNodes ==
    {OrderNode(side, al, w, sf, u) :
        side \in {S("long"), Absent}, al \in {Absent, S("equal"), S("weighted"), S("custom")},
        w \in WeightsValues, sf \in {Absent, S("SPY"), S("BSV")}, u \in UniverseValues}
OrderCalls ==
    {[fn |-> "order", node |-> n, allowed_tickers |-> a] :
        n \in OrderNodes \cup NotANode, a \in {allowed_symbols, {"SPY"}}}

OrderLeaf == OrderNode(S("long"), Absent, D(<< <<"SPY", I(1)>> >>), Absent, Absent)
Group(description, children) ==
    D(<< <<"type", S("group")>>, <<"description", description>>, <<"children", children>> >>)
ThenGroup == Group(S("Then branch"), L(<<OrderLeaf>>))
GroupNodes ==
    {D(<< <<"type", ty>>, <<"description", d>>, <<"children", ch>> >>) :
        ty \in {S("group"), S("order")}, d \in {Absent, S("Then branch"), S(" "), I(5)},
        ch \in {Absent, Null, L(<<>>), L(<<OrderLeaf>>), L(<<OrderLeaf, D(<< <<"type", S("bogus")>> >>)>>),
                L(<<I(5)>>), L(<<D(<< <<"type", L(<<>>)>> >>)>>), I(5), S("ab"), S(""), OrderLeaf}}
GroupCalls ==
    {[fn |-> "group", node |-> n, require_children |-> rc, require_description |-> rd] :
        n \in GroupNodes \cup NotANode, rc \in BOOLEAN, rd \in BOOLEAN}

Operands ==
    {Absent, I(70), S("x"), Metric(S("rsi"), S("SPY"), ArgsP20),
     Metric(S("current-price"), S("TQQQ"), Absent), Metric(S("rsi"), Absent, ArgsP20),
     Metric(S("current-price"), S("SPY"), Absent), Metric(S("sma"), S("SPY"), Absent)}
ElseGroup(description) == Group(S(description), L(<<OrderLeaf>>))
ConditionChildren ==
    {Absent, I(5), ThenGroup, L(<<ThenGroup>>), L(<<ThenGroup, ElseGroup("Else branch")>>),
     L(<<ElseGroup("Else branch"), ThenGroup>>), L(<<ElseGroup("Else branch")>>),
     L(<<OrderLeaf, ElseGroup("ELSE BRANCH")>>), L(<<ElseGroup(" Else branch "), OrderLeaf>>),
     L(<<ThenGroup, ElseGroup("else")>>), L(<<ElseGroup("else"), ThenGroup>>),
     L(<<ThenGroup, Group(S("Else branch"), L(<<>>))>>),
     L(<<ElseGroup("Else branch"), ElseGroup("else branch")>>),
     L(<<ElseGroup("Else branch"), ThenGroup, ElseGroup("Else branch")>>)}
ConditionNodes ==
    {D(<< <<"type", S("condition")>>, <<"operator", op>>, <<"lhs", l>>, <<"rhs", r>>, <<"children", ch>> >>) :
        op \in {Absent, S("gt"), S("crosses_above"), S("crosses_below"), S("bogus"), I(5)},
        l \in Operands, r \in Operands, ch \in ConditionChildren}
ConditionKnobs ==
    {[ConditionDefaults EXCEPT !.validate_else = ve, !.else_must_be_last = ml, !.else_label = lb] :
        ve \in BOOLEAN, ml \in BOOLEAN, lb \in {"Else branch", "else"}}
ConditionCalls ==
    {[fn |-> "condition", node |-> n, knobs |-> k] :
        n \in ConditionNodes \cup NotANode, k \in ConditionKnobs}

FilterNodes ==
    {D(<< <<"type", S("filter")>>, <<"universe", u>>, <<"select", sel>>,
          <<"selection", IF n = Null THEN Absent ELSE D(<< <<"n", n>> >>)>>, <<"metric", m>> >>) :
        u \in {Absent, L(<<>>), L(<<S("SPY"), S("TQQQ")>>), L(<<S("spy"), S("SPY")>>),
               L(<<S("SPY"), S("TQQQ"), S("BSV")>>), L(<<S(" ")>>), I(5), L(<<S("SPY"), I(1)>>)},
        sel \in {S("top"), S("bogus"), L(<<>>)},
        n \in {Null, Absent, I(1), I(2), I(3), I(5), I(0), I(-1), B(TRUE), B(FALSE), S("2"), Fl(150)},
        m \in {Absent, D(<< <<"name", S("current-price")>> >>), D(<< <<"name", S("rsi")>> >>),
               D(<< <<"name", S("rsi")>>, <<"args", ArgsP20>> >>), D(<< <<"name", L(<<>>)>> >>),
               D(<< <<"name", S("moving-average-price")>> >>)}}
FilterCalls ==
    {[fn |-> "filter", node |-> n, allowed_symbols |-> a, require_universe_nonempty |-> ru] :
        n \in FilterNodes \cup NotANode, a \in {Null, AllowedList}, ru \in BOOLEAN}

WeightNodes ==
    {D(<< <<"type", ty>>, <<"allocation_method", am>> >>) :
        ty \in {S("weight"), S("order"), Absent},
        am \in {Absent, Null, S("explicit_weights"), S("inverse_volatility"), S("bogus"), L(<<>>)}}
WeightCalls == {[fn |-> "weight", node |-> n] : n \in WeightNodes \cup NotANode}

Done(r) == [done |-> TRUE, raised |-> r.raised, is_valid |-> r.is_valid, errors |-> r.errors]

InitValidate ==
    /\ vin \in OrderCalls \cup GroupCalls \cup ConditionCalls \cup FilterCalls \cup WeightCalls
    /\ vout = [done |-> FALSE]
    /\ IdleExceptValidate

ValidateOrderNode ==
    /\ vin.fn = "order" /\ ~vout.done
    /\ vout' = Done(validate_order_node(vin.node, vin.allowed_tickers))
    /\ UNCHANGED <<vin, exceptValidate>>

ValidateGroupNode ==
    /\ vin.fn = "group" /\ ~vout.done
    /\ vout' = Done(validate_group_node(vin.node, vin.require_children, vin.require_description))
    /\ UNCHANGED <<vin, exceptValidate>>

ValidateConditionNode ==
    /\ vin.fn = "condition" /\ ~vout.done
    /\ vout' = Done(validate_condition_node(vin.node, vin.knobs))
    /\ UNCHANGED <<vin, exceptValidate>>

ValidateFilterNode ==
    /\ vin.fn = "filter" /\ ~vout.done
    /\ vout' = Done(validate_filter_node(vin.node, vin.allowed_symbols, vin.require_universe_nonempty))
    /\ UNCHANGED <<vin, exceptValidate>>

ValidateWeightNode ==
    /\ vin.fn = "weight" /\ ~vout.done
    /\ vout' = Done(validate_weight_node(vin.node))
    /\ UNCHANGED <<vin, exceptValidate>>

NextValidate ==
    \/ ValidateOrderNode
    \/ ValidateGroupNode
    \/ ValidateConditionNode
    \/ ValidateFilterNode
    \/ ValidateWeightNode

SpecValidate == InitValidate /\ [][NextValidate]_vars

\* The error messages of the finished call.
Messages == {vout.errors[i].msg : i \in 1..Len(vout.errors)}

\* The symbols an order node references: the keys of weights, symbol_filter and the
\* strings of universe, uppercased.
ReferencedSymbols(node) ==
    LET w == Get(node, "weights")
        sf == Get(node, "symbol_filter")
        u == Get(node, "universe")
    IN  (IF IsDict(w) THEN {Upper(k) : k \in Range(Keys(w))} ELSE {})
        \cup (IF IsStr(sf) /\ sf.v # "" THEN {Upper(sf.v)} ELSE {})
        \cup (IF IsList(u) THEN {Upper(x.v) : x \in {y \in Range(u.v) : IsStr(y)}} ELSE {})

\* The referenced symbols of an order node that have no entry in weights.
LackingWeight(node) ==
    LET w == Get(node, "weights")
    IN  ReferencedSymbols(node) \ (IF IsDict(w) THEN {Upper(k) : k \in Range(Keys(w))} ELSE {})

IsOrderCall == vin.fn = "order" /\ vout.done /\ IsDict(vin.node) /\ Get(vin.node, "type") = S("order")

\* C3: validate_order_node returns invalid for every order node in which a symbol
\* referenced through the weights keys, symbol_filter or universe (uppercased) has no
\* entry in weights, whatever the allocation, and an error names the symbols that
\* lack a weight.
C3_OrderWeightCompleteness ==
    (IsOrderCall /\ LackingWeight(vin.node) # {})
        => /\ ~vout.raised
           /\ ~vout.is_valid
           /\ \E i \in 1..Len(vout.errors) :
                 /\ vout.errors[i].msg = "Missing weight(s) for"
                 /\ LackingWeight(vin.node) \subseteq vout.errors[i].syms

IsConditionCall == vin.fn = "condition" /\ vout.done /\ IsDict(vin.node)

\* An operand that is a metric object.
IsMetricOperand(x) == IsDict(x) /\ NonBlankStr(Get(x, "name"))
\* An operand that is a numeric literal, or absent.
IsLiteralOrAbsent(node, side) == ~Has(node, side) \/ At(node, side).t \in {"int", "float"}

\* C4: validate_condition_node returns invalid for every condition whose operator is
\* crosses_above or crosses_below unless both lhs and rhs are metric operands; a literal
\* or absent operand on either side makes the node invalid (the error says that both
\* sides must be metrics).
C4_CrossesRule ==
    (IsConditionCall /\ Get(vin.node, "operator") \in {S("crosses_above"), S("crosses_below")})
        => /\ ~vout.raised
           /\ (~IsMetricOperand(Get(vin.node, "lhs")) \/ ~IsMetricOperand(Get(vin.node, "rhs")))
                 => ~vout.is_valid
           /\ (IsLiteralOrAbsent(vin.node, "lhs") \/ IsLiteralOrAbsent(vin.node, "rhs"))
                 => /\ ~vout.is_valid
                    /\ "requires both lhs and rhs to be metrics (no literals)" \in Messages

\* A crosses_above condition with a metric on the left and the literal 70 on the right,
\* well-formed otherwise, was rejected with that one error.
C4_Witness ==
    /\ IsConditionCall
    /\ Get(vin.node, "operator") = S("crosses_above")
    /\ Get(vin.node, "lhs") = Metric(S("rsi"), S("SPY"), ArgsP20)
    /\ Get(vin.node, "rhs") = I(70)
    /\ ~vout.raised /\ ~vout.is_valid
    /\ Messages = {"requires both lhs and rhs to be metrics (no literals)"}

IsLiteral(node, side) == Has(node, side) /\ At(node, side).t \in {"int", "float"}

\* C15: validate_condition_node returns invalid for every condition whose operator is a
\* comparison (gt, gte, lt, lte, eq, neq) and in which neither lhs nor rhs is a metric
\* operand: both are literals, or one is a literal and the other is absent.
C15_ComparisonNeedsMetric ==
    (/\ IsConditionCall
     /\ Get(vin.node, "operator") \in {S(op) : op \in {"gt", "gte", "lt", "lte", "eq", "neq"}}
     /\ IsLiteralOrAbsent(vin.node, "lhs") /\ IsLiteralOrAbsent(vin.node, "rhs")
     /\ IsLiteral(vin.node, "lhs") \/ IsLiteral(vin.node, "rhs"))
        => ~vout.raised /\ ~vout.is_valid

\* The direct children of a condition (none when children is not a list).
DirectChildren(node) ==
    IF IsList(Get(node, "children")) THEN Get(node, "children").v ELSE <<>>

\* A group whose description equals the else-label, case-insensitively.
ElseLabelled(c, label) ==
    /\ IsDict(c) /\ Get(c, "type") = S("group")
    /\ IsStr(Get(c, "description"))
    /\ Lower(Get(c, "description").v) = Lower(label)

\* The same, with surrounding blanks of the description and of the label ignored.
ElseLabelledStripped(c, label) ==
    /\ IsDict(c) /\ Get(c, "type") = S("group")
    /\ IsStr(Get(c, "description"))
    /\ Lower(Strip(Get(c, "description").v)) = Lower(Strip(label))

\* The statement of C5 for one reading of "else-labelled" (stripped or not) and one
\* reading of the configurations it covers.
ElseOrdering(stripped, configured) ==
    (IsConditionCall /\ configured)
        => LET ch == DirectChildren(vin.node)
               n == Len(ch)
               label == vin.knobs.else_label
               elses == {i \in 1..n : IF stripped THEN ElseLabelledStripped(ch[i], label)
                                                  ELSE ElseLabelled(ch[i], label)}
               wellFormedOtherwise ==
                   /\ validate_condition_node(vin.node, [vin.knobs EXCEPT !.validate_else = FALSE]).is_valid
                   /\ n >= 2 /\ elses = {n}
                   /\ IsList(Get(ch[n], "children")) /\ Get(ch[n], "children").v # <<>>
           IN  /\ wellFormedOtherwise => (~vout.raised /\ vout.is_valid)
               /\ (\E i \in elses : i # n)
                     => /\ ~vout.raised /\ ~vout.is_valid
                        /\ "Else branch must be the last direct child of the condition" \in Messages

\* C5 (as stated): with else_must_be_last=true, validate_condition_node accepts an
\* otherwise well-formed condition whose else-labelled group (description equal to the
\* else-label, case-insensitive) is the final direct child after at least one non-else
\* child, and reports invalid, with the error 'Else branch must be the last direct
\* child', every condition in which the else-labelled group is not the final child.
C5_ElseOrdering_AsStated == ElseOrdering(FALSE, vin.knobs.else_must_be_last)

\* C5 (amended): the same with else validation switched on (validate_else=true, the
\* default) and with the description compared with the else-label after stripping
\* surrounding whitespace, case-insensitively.
C5_ElseOrdering ==
    ElseOrdering(TRUE, vin.knobs.else_must_be_last /\ vin.knobs.validate_else)

\* [else, then] was rejected with the ordering error.
C5_Witness ==
    /\ IsConditionCall
    /\ vin.knobs.else_must_be_last /\ vin.knobs.validate_else /\ vin.knobs.else_label = "Else branch"
    /\ Get(vin.node, "children") = L(<<ElseGroup("Else branch"), ThenGroup>>)
    /\ ~vout.is_valid
    /\ "Else branch must be the last direct child of the condition" \in Messages

IsFilterCall == vin.fn = "filter" /\ vout.done /\ IsDict(vin.node)

\* selection.n of a filter node (Null when there is none).
SelectionN(node) == IF IsDict(Get(node, "selection")) THEN Get(Get(node, "selection"), "n") ELSE Null

\* The size of the normalized universe of a filter node: its symbols uppercased, without
\* duplicates.
UniverseSize(node) ==
    LET u == Get(node, "universe")
    IN  IF IsList(u) /\ \A x \in Range(u.v) : IsStr(x)
        THEN Cardinality({Upper(Strip(x.v)) : x \in Range(u.v)} \ {""})
        ELSE 0

\* C6: validate_filter_node returns invalid for every filter whose selection.n is not a
\* positive integer or exceeds the size of the normalized universe.
C6_FilterSelectionBound ==
    LET n == SelectionN(vin.node)
    IN  (IsFilterCall /\ (~(n.t = "int" /\ n.v > 0) \/ n.v > UniverseSize(vin.node)))
            => ~vout.raised /\ ~vout.is_valid

\* The metric operands of a condition node.
MetricOperands(n) == {m \in {Get(n, "lhs"), Get(n, "rhs")} : IsMetricOperand(m)}

\* The metric names of the period-requiring family, under either naming.
PeriodFamily ==
    METRICS_REQUIRE_PERIOD \cup {"moving-average-price", "exponential-moving-average-price"}

\* A metric object of the period-requiring family whose args.period is not a positive
\* integer.
LacksPeriod(m) ==
    LET args == Get(m, "args")
        period == IF IsDict(args) THEN Get(args, "period") ELSE Null
    IN  /\ IsMetricOperand(m)
        /\ Lower(Strip(Get(m, "name").v)) \in PeriodFamily
        /\ ~(period.t = "int" /\ period.v > 0)

\* C16: a condition with a metric operand of the period-requiring family, and a filter
\* whose metric is of that family, is not accepted unless args.period is a positive
\* integer; both validators require the period for the same metric names.
C16_PeriodRequirement ==
    /\ (IsConditionCall /\ \E m \in MetricOperands(vin.node) : LacksPeriod(m))
          => ~(~vout.raised /\ vout.is_valid)
    /\ (IsFilterCall /\ LacksPeriod(Get(vin.node, "metric")))
          => ~(~vout.raised /\ vout.is_valid)

\* The node with a children field that is a single node wrapped in a one-element list.
WrapChildren(node) ==
    D([i \in 1..Len(node.v) |->
          IF node.v[i][1] = "children" /\ IsDict(node.v[i][2])
          THEN <<"children", L(<<node.v[i][2]>>)>>
          ELSE node.v[i]])

\* C12: validate_group_node and validate_condition_node give a node whose children
\* field is a single node (a dict) the verdict and the errors they give the same node
\* with that child wrapped in a one-element list.
C12_ChildrenNormalization ==
    (vout.done /\ vin.fn \in {"group", "condition"} /\ IsDict(vin.node)
     /\ IsDict(Get(vin.node, "children")))
        => vout = Done(IF vin.fn = "group"
                       THEN validate_group_node(WrapChildren(vin.node), vin.require_children,
                                                vin.require_description)
                       ELSE validate_condition_node(WrapChildren(vin.node), vin.knobs))

(***************************************************************************)
(* validate_logic: the traversal, one call of trace_json_data_recursive or *)
(* of check_node_type_and_validate per step.                               *)
(***************************************************************************)
MaxChildren == 2

\* The validator check_node_type_and_validate(data, allowed_symbols) dispatches to,
\* called as the code calls it (every keyword argument it omits at its default).
check_node_type_and_validate(data) ==
    LET type_of_node == Get(data, "type")
    IN  CASE type_of_node = S("condition") -> validate_condition_node(data, ConditionDefaults)
          [] type_of_node = S("group") -> validate_group_node(data, TRUE, FALSE)
          [] type_of_node = S("order") -> validate_order_node(data, allowed_symbols)
          [] type_of_node = S("filter") -> validate_filter_node(data, AllowedList, TRUE)
          [] type_of_node = S("weight") -> validate_weight_node(data)
          [] OTHER -> Returned(<<Err("Unknown node type")>>)

Task(op, data) == [op |-> op, data |-> data]

\* The calls the loop of trace_json_data_recursive makes for the items of a list: a
\* dict is validated, then traced; anything else is skipped.
RECURSIVE TraceItems(_)
TraceItems(items) ==
    IF items = <<>> THEN <<>>
    ELSE (IF IsDict(Head(items))
          THEN <<Task("check", Head(items)), Task("trace", Head(items))>>
          ELSE <<>>) \o TraceItems(Tail(items))

\* The calls trace_json_data_recursive(data) makes, in order.
trace_json_data_recursive(data) ==
    IF Has(data, "children")
    THEN LET chidren_data == At(data, "children")
         IN  IF IsList(chidren_data) THEN TraceItems(chidren_data.v)
             ELSE IF IsDict(chidren_data) THEN TraceItems(<<chidren_data>>)
             ELSE <<>>
    ELSE <<Task("check", data)>>

MissingWeightOrder ==
    OrderNode(S("long"), Absent, D(<< <<"SPY", Fl(50)>> >>), Absent, L(<<S("SPY"), S("TQQQ")>>))
BadSideOrder == OrderNode(Absent, Absent, D(<< <<"SPY", I(1)>> >>), Absent, Absent)
ExitNode ==
    D(<< <<"type", S("exit")>>, <<"exit_type", S("signal_based")>>, <<"qty_percent", I(100)>> >>)
ExpressionNode == D(<< <<"type", S("expression")>>, <<"expression", S("x")>> >>)

\* Sequences over a set, up to a length.
SeqsUpTo(set, n) == UNION {[1..k -> set] : k \in 0..n}

\* A comparison of the price of a symbol outside allowed_symbols.
ForeignCondition ==
    D(<< <<"type", S("condition")>>, <<"operator", S("gt")>>,
         <<"lhs", Metric(S("current-price"), S("XYZ"), Absent)>>, <<"rhs", I(70)>>,
         <<"children", L(<<ThenGroup>>)>> >>)

InnerLeaves == {OrderLeaf, MissingWeightOrder, ExitNode}
InnerNodes ==
    {Group(S("Then branch"), L(ch)) : ch \in SeqsUpTo(InnerLeaves, MaxChildren)}
    \cup {D(<< <<"type", S("condition")>>, <<"children", ThenGroup>> >>)}
RootChildren ==
    InnerNodes
    \cup {OrderLeaf, MissingWeightOrder, BadSideOrder, I(5), ExpressionNode, ForeignCondition}
Roots ==
    {Group(Absent, L(ch)) : ch \in SeqsUpTo(RootChildren, MaxChildren)}
    \cup {L(ch) : ch \in SeqsUpTo({OrderLeaf, BadSideOrder}, MaxChildren)}
    \cup {OrderLeaf, BadSideOrder, MissingWeightOrder, ExitNode}

\* validate_logic(logic, allowed_symbols) is called.
InitLogic ==
    /\ logic \in Roots
    /\ lg_agenda = <<Task("trace", logic)>>
    /\ lg_visited = <<>>
    /\ lg_printed = <<>>
    /\ lg_status = "running"
    /\ IdleExceptLogic

\* One call of trace_json_data_recursive: `'children' in data`, then data.get('type')
\* on the path without children, raise on a root that is not a dict.
TraceJsonDataRecursive ==
    /\ lg_status = "running"
    /\ lg_agenda # <<>> /\ Head(lg_agenda).op = "trace"
    /\ LET data == Head(lg_agenda).data
       IN  IF IsDict(data)
           THEN /\ lg_agenda' = trace_json_data_recursive(data) \o Tail(lg_agenda)
                /\ lg_status' = "running"
           ELSE /\ lg_agenda' = <<>>
                /\ lg_status' = "raised"
    /\ UNCHANGED <<logic, lg_visited, lg_printed, exceptLogic>>

\* One call of check_node_type_and_validate, with handle_validation_errors: an invalid
\* node has its errors printed and ends the process (sys.exit).
CheckNodeTypeAndValidate ==
    /\ lg_status = "running"
    /\ lg_agenda # <<>> /\ Head(lg_agenda).op = "check"
    /\ LET data == Head(lg_agenda).data
           r == check_node_type_and_validate(data)
       IN  /\ lg_visited' = Append(lg_visited, data)
           /\ IF r.raised
              THEN lg_status' = "raised" /\ lg_agenda' = <<>> /\ lg_printed' = lg_printed
              ELSE IF ~r.is_valid
              THEN lg_status' = "exited" /\ lg_agenda' = <<>> /\ lg_printed' = lg_printed \o r.errors
              ELSE lg_status' = "running" /\ lg_agenda' = Tail(lg_agenda) /\ lg_printed' = lg_printed
    /\ UNCHANGED <<logic, exceptLogic>>

\* validate_logic returns to its caller.
ValidateLogicReturns ==
    /\ lg_status = "running" /\ lg_agenda = <<>>
    /\ lg_status' = "returned"
    /\ UNCHANGED <<logic, lg_agenda, lg_visited, lg_printed, exceptLogic>>

NextLogic ==
    \/ TraceJsonDataRecursive
    \/ CheckNodeTypeAndValidate
    \/ ValidateLogicReturns

SpecLogic == InitLogic /\ [][NextLogic]_vars

\* The dict nodes below a node: its children and theirs.
RECURSIVE Descendants(_)
Descendants(data) ==
    LET ch == Get(data, "children")
        direct == IF IsList(ch) THEN {c \in Range(ch.v) : IsDict(c)}
                  ELSE IF IsDict(ch) THEN {ch} ELSE {}
    IN  direct \cup UNION {Descendants(c) : c \in direct}

\* The nodes of a tree that validate_logic is to validate: the nodes below the root, or
\* the root itself when it has no children.
NodesToValidate(root) == IF Has(root, "children") THEN Descendants(root) ELSE {root}

\* The errors the validator of a node reports for it.
NodeErrors(n) ==
    LET r == check_node_type_and_validate(n)
    IN  IF r.raised THEN {} ELSE Range(r.errors)

\* C10: when validate_logic traverses a tree with several invalid nodes, the first
\* invalid node does not stop the traversal: once validate_logic has ended, every node
\* of the tree was visited and the errors of every invalid node were surfaced.
C10_ErrorAccumulation ==
    (lg_status \in {"returned", "exited", "raised"} /\ IsDict(logic))
        => \A n \in NodesToValidate(logic) :
              /\ n \in Range(lg_visited)
              /\ NodeErrors(n) \subseteq Range(lg_printed)

\* Every entry of the children field of a node and of the nodes below it, dict or not.
RECURSIVE Entries(_)
Entries(data) ==
    LET ch == Get(data, "children")
        direct == IF IsList(ch) THEN Range(ch.v)
                  ELSE IF ch \in {Absent, Null} THEN {} ELSE {ch}
    IN  direct \cup UNION {Entries(c) : c \in {d \in direct : IsDict(d)}}

\* A node passes the validator validate_logic dispatches its type to.
PassesValidator(n) ==
    LET r == check_node_type_and_validate(n)
    IN  ~r.raised /\ r.is_valid

\* C11: when validate_logic completes without reporting an error, every node reachable
\* from the root through children, the root included, is a dict whose type is a schema
\* node type and which passes the validator of its type; no entry of a children list
\* is skipped.
C11_FullTreeCoverage ==
    (lg_status = "returned" /\ lg_printed = <<>>)
        => \A n \in {logic} \cup Entries(logic) :
              /\ IsDict(n)
              /\ Get(n, "type") \in {S(t) : t \in _SCHEMA_NODE_TYPES}
              /\ PassesValidator(n)

IsExitOrExpression(n) == Get(n, "type") \in {S("exit"), S("expression")}

\* A tree of dict nodes in which every node that is not an exit or an expression passes
\* the validator of its type.
WellFormedTree(root) ==
    \A n \in {root} \cup Entries(root) :
        IsDict(n) /\ (IsExitOrExpression(n) \/ PassesValidator(n))

\* C13: a well-formed tree with exit or expression nodes among the children of its
\* groups passes validate_logic: the traversal returns and reports no error, exit and
\* expression are not rejected as unknown node types.
C13_ExitExpressionAccepted ==
    (/\ lg_status \in {"returned", "exited", "raised"}
     /\ IsDict(logic) /\ WellFormedTree(logic)
     /\ \E n \in Entries(logic) : IsExitOrExpression(n))
        => lg_status = "returned" /\ lg_printed = <<>>

\* The strings of a list value, uppercased.
UpperStrings(x) == IF IsList(x) THEN {Upper(e.v) : e \in {y \in Range(x.v) : IsStr(y)}} ELSE {}

\* The symbols a node references: those of an order (weights keys, symbol_filter and
\* universe), the universe of a filter, the symbols of the metric operands of a condition.
NodeSymbols(n) ==
    CASE Get(n, "type") = S("order") -> ReferencedSymbols(n)
      [] Get(n, "type") = S("filter") -> UpperStrings(Get(n, "universe"))
      [] Get(n, "type") = S("condition") ->
            {Upper(Get(m, "symbol").v) : m \in {x \in MetricOperands(n) : IsStr(Get(x, "symbol"))}}
      [] OTHER -> {}

\* C14: when validate_logic accepts a tree, every symbol a node of the tree references
\* is in allowed_symbols, and the name of every metric operand of every condition is an
\* allowed metric.
C14_SymbolMembership ==
    (lg_status = "returned" /\ lg_printed = <<>> /\ IsDict(logic))
        => \A n \in {d \in {logic} \cup Entries(logic) : IsDict(d)} :
              /\ NodeSymbols(n) \subseteq allowed_symbols
              /\ Get(n, "type") = S("condition")
                    => \A m \in MetricOperands(n) :
                          Lower(Strip(Get(m, "name").v)) \in DEFAULT_ALLOWED_METRICS

(***************************************************************************)
(* The validator as a whole: a call of one node validator, or a run of     *)
(* validate_logic.                                                         *)
(***************************************************************************)
InitValidation == InitValidate \/ InitLogic

NextValidation == NextValidate \/ NextLogic

SpecValidation == InitValidation /\ [][NextValidation]_vars

\* C9: each node validator returns (is_valid, errors) with is_valid true exactly when
\* errors is empty, a node that is not a dict yields (False, [one error]), and
\* validate_logic returns to its caller: nothing raises an exception or ends the process.
C9_ValidationNeverRaises ==
    /\ vout.done
          => /\ ~vout.raised
             /\ vout.is_valid <=> (vout.errors = <<>>)
             /\ ~IsDict(vin.node) => (~vout.is_valid /\ Len(vout.errors) = 1)
    /\ lg_status \notin {"raised", "exited"}

(***************************************************************************)
(* The custom indicators: indicators/max_drawdown_indicator.py,            *)
(* indicators/drawdown_indicator.py and                                    *)
(* indicators/moving_avg_return_indicator.py.  A value is an exact         *)
(* fraction <<numerator, denominator>> with a positive denominator.        *)
(***************************************************************************)
MaxUpdates == 5
MaxPeriod == 3
Prices == {0, 90, 100, 120}

Zero == <<0, 1>>
RatEq(a, b) == a[1] * b[2] = b[1] * a[2]
RatLeq(a, b) == a[1] * b[2] <= b[1] * a[2]
RatMax(a, b) == IF RatLeq(a, b) THEN b ELSE a
Max(set) == CHOOSE x \in set : \A y \in set : y <= x

\* __init__(period)
NewIndicator(period) == [period |-> period, price_history |-> <<>>, is_ready |-> FALSE]

\* A mutant of update: the window is never trimmed.
update_no_pop(self, price) ==
    LET appended == Append(self.price_history, price)
    IN  [self EXCEPT !.price_history = appended,
                     !.is_ready = self.is_ready \/ Len(appended) >= 2]

\* update(price), the same in both classes
update(self, price) ==
    LET appended == Append(self.price_history, price)
        trimmed == IF Len(appended) > self.period THEN Tail(appended) ELSE appended
    IN  [self EXCEPT !.price_history = trimmed,
                     !.is_ready = self.is_ready \/ Len(trimmed) >= 2]

\* The loop of MaxDrawdownIndicator.value over price_history[1:].
RECURSIVE MaxDrawdownScan(_, _, _)
MaxDrawdownScan(rest, peak, max_drawdown) ==
    IF rest = <<>> THEN max_drawdown
    ELSE LET price == Head(rest)
         IN  IF price > peak THEN MaxDrawdownScan(Tail(rest), price, max_drawdown)
             ELSE MaxDrawdownScan(Tail(rest), peak,
                      RatMax(max_drawdown, IF peak > 0 THEN <<peak - price, peak>> ELSE Zero))

\* MaxDrawdownIndicator.value
MaxDrawdownValue(self) ==
    IF ~self.is_ready \/ Len(self.price_history) < 2 THEN Zero
    ELSE MaxDrawdownScan(Tail(self.price_history), self.price_history[1], Zero)

\* DrawdownIndicator.value
DrawdownValue(self) ==
    IF ~self.is_ready \/ Len(self.price_history) < 2 THEN Zero
    ELSE LET peak == Max(Range(self.price_history))
             current_price == self.price_history[Len(self.price_history)]
         IN  IF peak > 0 THEN <<peak - current_price, peak>> ELSE Zero

\* MovingAvgReturnIndicator.__init__(period)
NewMovingAvgReturnIndicator(period) ==
    [period |-> period, price_history |-> <<>>, return_history |-> <<>>, is_ready |-> FALSE]

\* The number of prices MovingAvgReturnIndicator.update keeps.
PriceHistoryLimit == 500

Min(a, b) == IF a <= b THEN a ELSE b

\* MovingAvgReturnIndicator.update(price)
moving_avg_return_update(self, price) ==
    LET appended == Append(self.price_history, price)
        prev_price == appended[Len(appended) - 1]
        with_return == Append(self.return_history, <<price - prev_price, prev_price>>)
        returns == IF Len(appended) >= 2 /\ prev_price > 0
                   THEN IF Len(with_return) > self.period THEN Tail(with_return)
                        ELSE with_return
                   ELSE self.return_history
        prices == IF Len(appended) > PriceHistoryLimit THEN Tail(appended) ELSE appended
    IN  [self EXCEPT !.price_history = prices,
                     !.return_history = returns,
                     !.is_ready = self.is_ready \/ Len(returns) >= Min(self.period, 1)]

InitIndicator ==
    /\ ind_kind \in {"max-drawdown", "drawdown", "moving-average-return"}
    /\ \E period \in 1..MaxPeriod :
          ind = IF ind_kind = "moving-average-return"
                THEN NewMovingAvgReturnIndicator(period)
                ELSE NewIndicator(period)
    /\ ind_seen = <<>>
    /\ IdleExceptIndicator

\* MaxDrawdownIndicator.update(price)
MaxDrawdownUpdate(price) ==
    /\ ind_kind = "max-drawdown" /\ Len(ind_seen) < MaxUpdates
    /\ ind' = update(ind, price)
    /\ ind_seen' = Append(ind_seen, price)
    /\ UNCHANGED <<ind_kind, exceptIndicator>>

\* DrawdownIndicator.update(price)
DrawdownUpdate(price) ==
    /\ ind_kind = "drawdown" /\ Len(ind_seen) < MaxUpdates
    /\ ind' = update(ind, price)
    /\ ind_seen' = Append(ind_seen, price)
    /\ UNCHANGED <<ind_kind, exceptIndicator>>

\* MovingAvgReturnIndicator.update(price)
MovingAvgReturnUpdate(price) ==
    /\ ind_kind = "moving-average-return" /\ Len(ind_seen) < MaxUpdates
    /\ ind' = moving_avg_return_update(ind, price)
    /\ ind_seen' = Append(ind_seen, price)
    /\ UNCHANGED <<ind_kind, exceptIndicator>>

NextIndicator ==
    \/ \E price \in Prices : MaxDrawdownUpdate(price)
    \/ \E price \in Prices : DrawdownUpdate(price)
    \/ \E price \in Prices : MovingAvgReturnUpdate(price)

SpecIndicator == InitIndicator /\ [][NextIndicator]_vars

\* The current window: the last `period` prices passed to update.
Window ==
    LET n == Len(ind_seen)
        k == IF n < ind.period THEN n ELSE ind.period
    IN  SubSeq(ind_seen, n - k + 1, n)

\* The drawdown at point i of a window: (peak - price)/peak, peak being the running
\* maximum of the window up to that point.
DrawdownAt(w, i) ==
    LET peak == Max({w[j] : j \in 1..i})
    IN  <<peak - w[i], peak>>

\* C8: after any sequence of update(price) calls with positive prices,
\* MaxDrawdownIndicator.value is the largest (peak - price)/peak over the points of the
\* current window (the last `period` prices), peak being the running maximum of the
\* window up to the point, and 0 when fewer than two prices were observed;
\* DrawdownIndicator.value is (max(window) - last(window))/max(window); for
\* [100, 120, 90] both are 1/4.
C8_NumericContract ==
    (ind_kind # "none" /\ ind_seen # <<>> /\ \A i \in 1..Len(ind_seen) : ind_seen[i] > 0)
        => LET w == Window
               n == Len(w)
           IN  /\ ind_kind = "max-drawdown"
                     => /\ \A i \in 1..n : RatLeq(DrawdownAt(w, i), MaxDrawdownValue(ind))
                        /\ \E i \in 1..n : RatEq(DrawdownAt(w, i), MaxDrawdownValue(ind))
                        /\ Len(ind_seen) < 2 => RatEq(MaxDrawdownValue(ind), Zero)
               /\ ind_kind = "drawdown"
                     => RatEq(DrawdownValue(ind), <<Max(Range(w)) - w[n], Max(Range(w))>>)
               /\ (ind_seen = <<100, 120, 90>> /\ ind.period >= 3)
                     => /\ ind_kind = "max-drawdown" => RatEq(MaxDrawdownValue(ind), <<1, 4>>)
                        /\ ind_kind = "drawdown" => RatEq(DrawdownValue(ind), <<1, 4>>)

\* The max-drawdown indicator of period 2 was fed 120, 90, 100: the window is
\* [90, 100], the peak 120 has left it, and the value is 0.
C8_Witness ==
    /\ ind_kind = "max-drawdown"
    /\ ind.period = 2
    /\ ind_seen = <<120, 90, 100>>
    /\ ind.price_history = <<90, 100>>
    /\ RatEq(MaxDrawdownValue(ind), Zero)

\* C25: for each of the three custom indicators constructed with period p >= 1,
\* after any sequence of update(price) calls the stored window of raw prices holds at
\* most p entries, the most recent ones, and the return window of
\* MovingAvgReturnIndicator holds at most p entries.
C25_BoundedPriceWindow ==
    ind_kind # "none"
        => /\ Len(ind.price_history) <= ind.period
           /\ ind.price_history = Window
           /\ ind_kind = "moving-average-return" => Len(ind.return_history) <= ind.period

\* C26: for each of the three custom indicators and every period p >= 1, is_ready is
\* false before the second update(price) call, true after two or more update calls
\* whatever the prices, and once true it stays true.
C26_CustomIndicatorReadiness ==
    ind_kind # "none"
        => /\ ind.is_ready <=> Len(ind_seen) >= 2
           /\ \A price \in Prices :
                 ind.is_ready
                     => (IF ind_kind = "moving-average-return"
                         THEN moving_avg_return_update(ind, price)
                         ELSE update(ind, price)).is_ready

(***************************************************************************)
(* Code generation: generators/node_generator.py                           *)
(***************************************************************************)
MaxRuns == 2

\* A piece of generated code is the sequence of its lines, as str.split("\n") gives
\* them: the empty string is one empty line.
EmptyText == <<"">>
Line(s) == <<s>>

RECURSIVE Concat(_)
Concat(items) == IF Len(items) = 0 THEN <<>> ELSE Head(items) \o Concat(Tail(items))

\* "\n".join(code_lines)
JoinLines(code_lines) == IF Len(code_lines) = 0 THEN EmptyText ELSE Concat(code_lines)

\* "\n\n".join(code_blocks)
RECURSIVE JoinBlocks(_)
JoinBlocks(code_blocks) ==
    IF Len(code_blocks) = 0 THEN EmptyText
    ELSE IF Len(code_blocks) = 1 THEN code_blocks[1]
    ELSE code_blocks[1] \o EmptyText \o JoinBlocks(Tail(code_blocks))

\* not code.strip(): no generated line consists of blanks only, so a blank text is
\* made of empty lines.
IsBlank(code) == \A i \in 1..Len(code) : code[i] = ""

\* "    " * (depth + 2)
RECURSIVE Spaces(_)
Spaces(n) == IF n = 0 THEN "" ELSE "    " \o Spaces(n - 1)
Indent(depth) == Spaces(depth + 2)

RECURSIVE GCD(_, _)
GCD(a, b) == IF b = 0 THEN a ELSE GCD(b, a % b)

\* The `width` decimal digits of h.
RECURSIVE Digits(_, _)
Digits(h, width) ==
    IF width = 0 THEN "" ELSE Digits(h \div 10, width - 1) \o ToString(h % 10)

\* The digits after the point of h / 10^width, without trailing zeros.
RECURSIVE Decimals(_, _)
Decimals(h, width) ==
    IF width > 1 /\ h % 10 = 0 THEN Decimals(h \div 10, width - 1) ELSE Digits(h, width)

\* repr() of the float n/d, n >= 0 and d > 0. The value is taken exactly: the
\* rounding of float arithmetic is not modelled.
FloatRepr(n, d) ==
    LET g == GCD(n, d)
        p == n \div g
        q == d \div g
        h == p * (1000000 \div q)
    IN  CASE q = 1 -> ToString(p) \o ".0"
          [] 1000000 % q = 0 /\ 10000 * p >= q ->
             ToString(h \div 1000000) \o "." \o Decimals(h % 1000000, 6)
          [] <<p, q>> = <<1, 3>> -> "0.3333333333333333"
          [] <<p, q>> = <<2, 3>> -> "0.6666666666666666"
          [] <<p, q>> = <<1, 6>> -> "0.16666666666666666"
          [] <<p, q>> = <<5, 6>> -> "0.8333333333333334"
          [] OTHER -> ToString(p) \o "/" \o ToString(q)

\* ", ".join(parts)
RECURSIVE JoinComma(_)
JoinComma(parts) ==
    IF Len(parts) = 0 THEN ""
    ELSE IF Len(parts) = 1 THEN parts[1]
    ELSE parts[1] \o ", " \o JoinComma(Tail(parts))

\* repr(x)
RECURSIVE Repr(_)
Repr(x) ==
    CASE x.t = "str" -> "'" \o x.v \o "'"
      [] x.t = "float" -> FloatRepr(x.v, 100)
      [] x.t = "list" -> "[" \o JoinComma([i \in 1..Len(x.v) |-> Repr(x.v[i])]) \o "]"
      [] x.t = "dict" ->
         "{" \o JoinComma([i \in 1..Len(x.v) |-> "'" \o x.v[i][1] \o "': " \o Repr(x.v[i][2])])
             \o "}"
      [] OTHER -> PyStr(x)

\* str(x) and f"{x}"
Format(x) == IF x.t = "str" THEN x.v ELSE Repr(x)

\* list(a_set): a set of strings is iterated in the order of the hashes of its
\* elements, which the interpreter draws anew at each start (PYTHONHASHSEED);
\* `hash` lists the symbols of the model in that order.
ListOfSet(set, hash) == SelectSeq(hash, LAMBDA s : s \in set)

\* NodeGenerator.__init__
NewNodeGenerator ==
    [indicator_generator |-> Registry(<<>>, {}),
     symbols_referenced |-> {},
     helper_methods_needed |-> {},
     variables_created |-> {},
     condition_counter |-> 0,
     filter_counter |-> 0,
     order_counter |-> 0]

\* A mutant of _reset_counters: symbols_referenced and the registry are not cleared.
_reset_counters_keeping(self) ==
    [self EXCEPT !.helper_methods_needed = {},
                 !.variables_created = {},
                 !.condition_counter = 0,
                 !.filter_counter = 0,
                 !.order_counter = 0]

\* _reset_counters() and indicator_generator.reset_variables()
_reset_counters(self) ==
    [self EXCEPT !.indicator_generator = reset_variables,
                 !.symbols_referenced = {},
                 !.helper_methods_needed = {},
                 !.variables_created = {},
                 !.condition_counter = 0,
                 !.filter_counter = 0,
                 !.order_counter = 0]

\* What a generating method does: it returns code, or an exception leaves it.
Code(self, code) == [raised |-> FALSE, self |-> self, code |-> code]
Crash(self) == [raised |-> TRUE, self |-> self, code |-> EmptyText]

\* What _generate_operand_code returns once get_indicator_value_code has answered r.
IndicatorOperand(self, r) ==
    IF r.raised THEN Crash([self EXCEPT !.indicator_generator = r.reg])
    ELSE Code([self EXCEPT !.indicator_generator = r.reg], r.code)

\* _generate_operand_code(operand, universe_symbols): the code is an expression.
_generate_operand_code(self, operand) ==
    CASE IsIntOrFloat(operand) -> Code(self, Format(operand))
      [] IsStr(operand) -> Code(self, "\"" \o operand.v \o "\"")
      [] operand = Null -> Code(self, "0")
      [] IsList(operand) -> Code(self, "0  # Unsupported operand type: list")
      [] IsDict(operand) ->
         IndicatorOperand(self, get_indicator_value_code(self.indicator_generator, operand))

\* The two lines emitted for one target symbol of an order.
ReadyGuard(indent, symbol) ==
    indent \o "if self._is_security_ready_for_trading('" \o symbol \o "'):"

\* The sum of the values of a weights dict, in hundredths.
RECURSIVE SumWeights(_)
SumWeights(pairs) ==
    IF Len(pairs) = 0 THEN 0 ELSE Num100(pairs[1][2]) + SumWeights(Tail(pairs))

\* _generate_order_code(node, depth, universe_symbols)
_generate_order_code(self, node, depth, universe_symbols, hash) ==
    LET indent == Indent(depth)
        side == Lower(Format(GetOr(node, "side", S("long"))))
        size_type == Lower(Format(GetOr(node, "size_type", S("percent_equity"))))
        size == GetOr(node, "size", Fl(10000))
        allocation == Lower(Format(GetOr(node, "allocation", S("equal"))))
        weights == GetOr(node, "weights", D(<<>>))
        symbol_filter == Get(node, "symbol_filter")
        sign == IF side = "long" THEN "" ELSE "-"
        head == Line(indent \o "# " \o Format(GetOr(node, "description", S("Order execution"))))
        target_symbols ==
            IF Truthy(symbol_filter) THEN <<symbol_filter.v>>
            ELSE IF Truthy(weights) THEN Keys(weights)
            ELSE ListOfSet(universe_symbols, hash)
        referenced ==
            IF Truthy(symbol_filter) \/ Truthy(weights)
            THEN {Upper(target_symbols[i]) : i \in 1..Len(target_symbols)}
            ELSE {}
        self0 == [self EXCEPT !.order_counter = @ + 1]
        self1 == [self0 EXCEPT !.symbols_referenced = @ \cup referenced]
        equal_lines ==
            <<Line(indent \o "target_weight = "
                   \o FloatRepr(Num100(size), 10000 * Len(target_symbols)))>>
            \o [i \in 1..Len(target_symbols) |->
                  <<ReadyGuard(indent, target_symbols[i]),
                    indent \o "    self.SetHoldings('" \o target_symbols[i] \o "', "
                        \o sign \o "target_weight)">>]
        total_weights == IF Truthy(weights) THEN SumWeights(weights.v) ELSE 100
        weighted_lines ==
            [i \in 1..Len(weights.v) |->
                <<ReadyGuard(indent, weights.v[i][1]),
                  indent \o "    self.SetHoldings('" \o weights.v[i][1] \o "', " \o sign
                      \o FloatRepr(Num100(weights.v[i][2]) * Num100(size),
                                   10000 * total_weights) \o ")">>]
        quantity_lines ==
            <<Line(indent \o "target_quantity = " \o ToString(Num100(size) \div 100))>>
            \o [i \in 1..Len(target_symbols) |->
                  <<ReadyGuard(indent, target_symbols[i]),
                    indent \o "    self.MarketOrder('" \o target_symbols[i] \o "', "
                        \o sign \o "target_quantity)">>]
        value_lines ==
            <<Line(indent \o "target_value = " \o Format(size))>>
            \o [i \in 1..Len(target_symbols) |->
                  <<ReadyGuard(indent, target_symbols[i]),
                    indent \o "    current_price = self.Securities['" \o target_symbols[i]
                        \o "'].Price",
                    indent \o "    if current_price > 0:",
                    indent \o "        self.MarketOrder('" \o target_symbols[i] \o "', "
                        \o (IF side = "short" THEN "-" ELSE "")
                        \o "int(target_value / current_price))">>]
    IN  IF (Truthy(symbol_filter) /\ ~IsStr(symbol_filter))
           \/ (~Truthy(symbol_filter) /\ Truthy(weights) /\ ~IsDict(weights))
        THEN Crash(self0)
        ELSE IF size_type \in {"percent_equity", "fixed_qty"} /\ ~IsIntOrFloat(size)
        THEN Crash(self1)
        ELSE IF size_type = "percent_equity" /\ allocation = "equal" /\ Len(target_symbols) > 0
        THEN Code(self1, JoinLines(<<head>> \o equal_lines))
        ELSE IF size_type = "percent_equity" /\ allocation = "weighted"
        THEN IF ~IsDict(weights) \/ total_weights = 0
                \/ \E i \in 1..Len(weights.v) : ~IsIntOrFloat(weights.v[i][2])
             THEN Crash(self1)
             ELSE Code(self1, JoinLines(<<head>> \o weighted_lines))
        ELSE IF size_type = "fixed_qty"
        THEN Code(self1, JoinLines(<<head>> \o quantity_lines))
        ELSE IF size_type = "fixed_value"
        THEN Code(self1, JoinLines(<<head>> \o value_lines))
        ELSE Code(self1, JoinLines(<<head>>))

OPERATOR_MAPPING ==
    [gt |-> ">", gte |-> ">=", lt |-> "<", lte |-> "<=", eq |-> "==", neq |-> "!=",
     crosses_above |-> "_crosses_above", crosses_below |-> "_crosses_below"]

\* Descriptions _generate_group_code does not turn into a comment.
meaningful_descriptions ==
    {"else branch", "group logic", "group: wt-cash-equal", "conditional logic",
     "group:", "alternative branch"}

\* str.startswith and substring tests on the descriptions of the model
StartsWithGroup(s) == s \in {"group:", "group: wt-cash-equal", "group: growth"}
StartsWithConditionalLogic(s) == s \in {"conditional logic", "conditional logic container"}
ContainsConditionalLogic(s) == s \in {"conditional logic", "conditional logic container"}
ContainsContainer(s) == s \in {"container", "conditional logic container"}

\* _process_expression(expression, universe_symbols) on the expressions of the model
_process_expression(expression) ==
    CASE expression = "rsi_spy_14 > 70" -> "self.spy_rsi_14 > 70"
      [] expression = "rsi_spy_14 > 70 AND sma_spy_20 > 1" ->
         "self.spy_rsi_14 > 70 and self.spy_sma_20 > 1"
      [] OTHER -> expression

\* What `for symbol in universe` iterates over.
Iterate(universe) ==
    CASE IsList(universe) -> universe.v
      [] IsStr(universe) -> [i \in 1..Len(Chars(universe.v)) |-> S(Chars(universe.v)[i])]
      [] IsDict(universe) -> [i \in 1..Len(universe.v) |-> S(universe.v[i][1])]

\* d[k] = value on a dict
DictSet(d, k, value) ==
    IF Has(d, k)
    THEN [t |-> "dict", v |-> [i \in 1..Len(d.v) |-> IF d.v[i][1] = k THEN <<k, value>> ELSE d.v[i]]]
    ELSE [t |-> "dict", v |-> Append(d.v, <<k, value>>)]

\* The per-symbol loops of _generate_filter_code: the metric is registered for each
\* symbol of the universe in turn and a score line is emitted for it.
RECURSIVE SymbolScores(_, _, _, _)

\* The score lines of one symbol, whose registration answered r, before those of the
\* symbols that follow it.
ScoreLines(r, metric, symbols, indent, rest) ==
    IF r.raised THEN [raised |-> TRUE, reg |-> r.reg, lines |-> <<>>]
    ELSE [raised |-> rest.raised, reg |-> rest.reg,
          lines |-> << <<indent \o "if '" \o Format(Head(symbols)) \o "' in self.Securities:",
                         indent \o "    symbol_scores['" \o Format(Head(symbols)) \o "'] = "
                             \o r.code>> >> \o rest.lines]

SymbolScoresFrom(r, metric, symbols, indent) ==
    ScoreLines(r, metric, symbols, indent, SymbolScores(r.reg, metric, Tail(symbols), indent))

SymbolScores(reg, metric, symbols, indent) ==
    IF Len(symbols) = 0 THEN [raised |-> FALSE, reg |-> reg, lines |-> <<>>]
    ELSE IF ~IsDict(metric) THEN [raised |-> TRUE, reg |-> reg, lines |-> <<>>]
    ELSE SymbolScoresFrom(
             get_indicator_value_code(reg, DictSet(metric, "symbol", Head(symbols))),
             metric, symbols, indent)

\* ", ".join(weight_conditions) in _generate_filter_code
RECURSIVE WeightConditions(_, _)
WeightConditions(pairs, size) ==
    IF Len(pairs) = 0 THEN ""
    ELSE "'" \o pairs[1][1] \o "': "
         \o FloatRepr(Num100(pairs[1][2]) * Num100(size), 1000000)
         \o (IF Len(pairs) = 1 THEN "" ELSE ", " \o WeightConditions(Tail(pairs), size))

\* The code of a filter node once the metric of each symbol is registered: scores
\* holds the registry and the score lines.
FilterCode(self1, node, depth, scores) ==
    LET indent == Indent(depth)
        select_type == Lower(Format(GetOr(node, "select", S("top"))))
        selection == GetOr(node, "selection", D(<<>>))
        n_select == GetOr(selection, "n", I(1))
        self2 == [self1 EXCEPT !.indicator_generator = scores.reg]
        head == <<Line(indent \o "# " \o Format(GetOr(node, "description", S("Filter logic")))),
                  Line(indent \o "symbol_scores = {}")>>
        half == IF n_select.t = "float" THEN FloatRepr(n_select.v \div 200, 1)
                ELSE ToString(Num100(n_select) \div 200)
        select_lines ==
            CASE select_type = "top" ->
                 <<Line(indent \o "selected_symbols = sorted(symbol_scores.items(), key=lambda x: x[1], reverse=True)[:"
                        \o Format(n_select) \o "]")>>
              [] select_type = "bottom" ->
                 <<Line(indent \o "selected_symbols = sorted(symbol_scores.items(), key=lambda x: x[1])[:"
                        \o Format(n_select) \o "]")>>
              [] OTHER ->
                 << <<indent \o "sorted_symbols = sorted(symbol_scores.items(), key=lambda x: x[1])",
                      indent \o "mid_start = max(0, len(sorted_symbols) // 2 - " \o half \o ")",
                      indent \o "selected_symbols = sorted_symbols[mid_start:mid_start + "
                          \o Format(n_select) \o "]">> >>
        allocation_type == Lower(Format(GetOr(node, "allocation", S("equal"))))
        size == GetOr(node, "size", Fl(10000))
        weights == GetOr(node, "weights", D(<<>>))
        equal_lines ==
            << <<indent \o "if selected_symbols:",
                 indent \o "    weight_per_symbol = " \o FloatRepr(Num100(size), 10000)
                     \o " / len(selected_symbols)",
                 indent \o "    for symbol, score in selected_symbols:",
                 indent \o "        if self._is_security_ready_for_trading(symbol):",
                 indent \o "            self.SetHoldings(symbol, weight_per_symbol)">> >>
        weighted_lines ==
            << <<indent \o "for symbol, score in selected_symbols:",
                 indent \o "    if self._is_security_ready_for_trading(symbol):">> >>
            \o (IF Len(weights.v) = 0 THEN <<>>
                ELSE << <<indent \o "        weights = {" \o WeightConditions(weights.v, size) \o "}",
                          indent \o "        weight = weights.get(symbol, 0)",
                          indent \o "        if weight > 0:",
                          indent \o "            self.SetHoldings(symbol, weight)">> >>)
    IN  IF scores.raised THEN Crash(self2)
        ELSE IF select_type \notin {"top", "bottom"} /\ ~IsIntOrFloat(n_select) THEN Crash(self2)
        ELSE IF allocation_type = "equal"
        THEN IF ~IsIntOrFloat(size) THEN Crash(self2)
             ELSE Code(self2, JoinLines(head \o scores.lines \o select_lines \o equal_lines))
        ELSE IF allocation_type = "weighted"
        THEN IF ~IsDict(weights)
                \/ (\E i \in 1..Len(weights.v) : ~IsIntOrFloat(weights.v[i][2]))
                \/ (Len(weights.v) > 0 /\ ~IsIntOrFloat(size))
             THEN Crash(self2)
             ELSE Code(self2, JoinLines(head \o scores.lines \o select_lines \o weighted_lines))
        ELSE Code(self2, JoinLines(head \o scores.lines \o select_lines))

\* _generate_filter_code(node, depth, universe_symbols)
_generate_filter_code(self, node, depth) ==
    LET self0 == [self EXCEPT !.filter_counter = @ + 1]
        universe == GetOr(node, "universe", L(<<>>))
        selection == GetOr(node, "selection", D(<<>>))
        metric == GetOr(node, "metric", D(<<>>))
        symbols == Iterate(universe)
        self1 == [self0 EXCEPT !.symbols_referenced =
                     @ \cup {Upper(symbols[i].v) : i \in {j \in 1..Len(symbols) : IsStr(symbols[j])}}]
    IN  IF ~IsDict(selection) \/ universe.t \notin {"list", "str", "dict"} THEN Crash(self0)
        ELSE FilterCode(self1, node, depth,
                        SymbolScores(self1.indicator_generator, metric, symbols, Indent(depth)))

\* The loop over the portfolio that the partial, stop-loss and take-profit exits share.
PortfolioLoop(indent) ==
    <<indent \o "for symbol in list(self.Portfolio.Keys):",
      indent \o "    holding = self.Portfolio[symbol]",
      indent \o "    if holding.Invested:">>

\* _generate_exit_code(node, depth, universe_symbols)
_generate_exit_code(self, node, depth) ==
    LET indent == Indent(depth)
        exit_type == Lower(Format(GetOr(node, "exit_type", S("signal_based"))))
        qty_percent == GetOr(node, "qty_percent", Fl(10000))
        head == Line(indent \o "# " \o Format(GetOr(node, "description", S("Exit logic"))))
    IN  CASE exit_type = "signal_based" ->
             IF ~IsIntOrFloat(qty_percent) THEN Crash(self)
             ELSE IF Num100(qty_percent) >= 10000
             THEN Code(self, JoinLines(<<head, Line(indent \o "self.Liquidate()")>>))
             ELSE Code(self, JoinLines(<<head,
                     PortfolioLoop(indent) \o
                     <<indent \o "        target_qty = int(holding.Quantity * "
                           \o FloatRepr(Num100(qty_percent), 10000) \o ")",
                       indent \o "        if target_qty != 0:",
                       indent \o "            self.MarketOrder(symbol, -target_qty)">> >>))
          [] exit_type = "stop_loss" ->
             Code(self, JoinLines(<<head,
                     PortfolioLoop(indent) \o
                     <<indent \o "        unrealized_pnl_pct = holding.UnrealizedProfitPercent",
                       indent \o "        if unrealized_pnl_pct < -"
                           \o Format(GetOr(node, "threshold", Fl(5))) \o ":",
                       indent \o "            self.Liquidate(symbol)">> >>))
          [] exit_type = "take_profit" ->
             Code(self, JoinLines(<<head,
                     PortfolioLoop(indent) \o
                     <<indent \o "        unrealized_pnl_pct = holding.UnrealizedProfitPercent",
                       indent \o "        if unrealized_pnl_pct > "
                           \o Format(GetOr(node, "threshold", Fl(10))) \o ":",
                       indent \o "            self.Liquidate(symbol)">> >>))
          [] OTHER -> Code(self, JoinLines(<<head>>))

\* _generate_expression_code(node, depth, universe_symbols)
_generate_expression_code(self, node, depth) ==
    LET indent == Indent(depth)
        expression == GetOr(node, "expression", S(""))
    IN  IF ~Truthy(expression) THEN Code(self, Line(indent \o "# Empty expression"))
        ELSE IF ~IsStr(expression) THEN Crash(self)
        ELSE Code(self,
                  <<indent \o "# " \o Format(GetOr(node, "description", S("Expression evaluation"))),
                    indent \o "if " \o _process_expression(expression.v) \o ":",
                    indent \o "    # Expression condition is true",
                    indent \o "    pass  # Add specific actions here">>)

RECURSIVE _generate_node_code(_, _, _, _, _)
RECURSIVE GenerateEach(_, _, _, _, _)

\* The code of a node put before what the nodes after it gave.
CodeThen(code, rest) ==
    [raised |-> rest.raised, self |-> rest.self, codes |-> <<code>> \o rest.codes]

\* The nodes after the first one, whose generation answered `first`.
EachAfter(first, nodes, depth, universe_symbols, hash) ==
    IF first.raised THEN [raised |-> TRUE, self |-> first.self, codes |-> <<>>]
    ELSE CodeThen(first.code,
                  GenerateEach(first.self, Tail(nodes), depth, universe_symbols, hash))

\* The code of each node of a list in turn, the generator passing from one to the
\* next: [raised, self, codes].
GenerateEach(self, nodes, depth, universe_symbols, hash) ==
    IF Len(nodes) = 0 THEN [raised |-> FALSE, self |-> self, codes |-> <<>>]
    ELSE EachAfter(_generate_node_code(self, Head(nodes), depth, universe_symbols, hash),
                   nodes, depth, universe_symbols, hash)

\* The code blocks that are not blank (if child_code.strip()).
NonBlank(codes) == SelectSeq(codes, LAMBDA c : ~IsBlank(c))

\* code_lines.append(children_code), the generation of the children having answered kids.
AppendCode(code_lines, kids) ==
    IF kids.raised THEN Crash(kids.self)
    ELSE Code(kids.self, JoinLines(code_lines \o <<kids.code>>))

\* code_lines followed by the code of node['children'], when the node has children.
WithChildren(self, code_lines, node, depth, universe_symbols, hash) ==
    IF Has(node, "children") /\ Truthy(Get(node, "children"))
    THEN AppendCode(code_lines,
                    _generate_node_code(self, Get(node, "children"), depth,
                                        universe_symbols, hash))
    ELSE Code(self, JoinLines(code_lines))

\* _generate_weight_code(node, depth, universe_symbols)
_generate_weight_code(self, node, depth, universe_symbols, hash) ==
    LET indent == Indent(depth)
        weights == GetOr(node, "weights", D(<<>>))
        head == Line(indent \o "# " \o Format(GetOr(node, "description", S("Portfolio weighting"))))
        lines == [i \in 1..Len(weights.v) |->
                    <<indent \o "if '" \o weights.v[i][1] \o "' in self.Securities:",
                      indent \o "    self.SetHoldings('" \o weights.v[i][1] \o "', "
                          \o Format(weights.v[i][2]) \o ")">>]
        self1 == [self EXCEPT !.symbols_referenced =
                     @ \cup {Upper(weights.v[i][1]) : i \in 1..Len(weights.v)}]
    IN  IF ~IsDict(weights) THEN Crash(self)
        ELSE WithChildren(self1, <<head>> \o lines, node, depth, universe_symbols, hash)

\* The comment _generate_group_code makes of a description.
GroupComment(indent, description) ==
    IF ~Truthy(description) THEN <<>>
    ELSE IF /\ Strip(Lower(description.v)) \notin meaningful_descriptions
            /\ ~StartsWithGroup(Lower(description.v))
            /\ ~StartsWithConditionalLogic(Lower(description.v))
    THEN <<Line(indent \o "# " \o description.v)>>
    ELSE <<>>

\* _generate_group_code(node, depth, universe_symbols)
_generate_group_code(self, node, depth, universe_symbols, hash) ==
    LET description == GetOr(node, "description", S(""))
    IN  IF Truthy(description) /\ ~IsStr(description) THEN Crash(self)
        ELSE WithChildren(self, GroupComment(Indent(depth), description), node, depth,
                          universe_symbols, hash)

\* any(child.get('description', '').lower() == 'else branch' for child in children):
\* "yes", "no", or "raised" when a child before the first match is no dict or has a
\* description that is no string.
RECURSIVE AnyElseBranch(_)
AnyElseBranch(children) ==
    IF Len(children) = 0 THEN "no"
    ELSE LET child == Head(children)
             description == GetOr(child, "description", S(""))
         IN  IF ~IsDict(child) THEN "raised"
             ELSE IF ~IsStr(description) THEN "raised"
             ELSE IF Lower(description.v) = "else branch" THEN "yes"
             ELSE AnyElseBranch(Tail(children))

\* The branches after the first of an if-else container: each under its own else.
ElseBranches(indent, codes) ==
    Concat([i \in 1..Len(codes) |-> <<Line(indent \o "else:"), codes[i]>>])

\* The comparison of a condition node: the `if` line.
ConditionExpr(operator, lhs_code, rhs_code) ==
    IF operator \in {"crosses_above", "crosses_below"}
    THEN "self." \o OPERATOR_MAPPING[operator] \o "(" \o lhs_code \o ", " \o rhs_code \o ")"
    ELSE IF operator \in DOMAIN OPERATOR_MAPPING
    THEN lhs_code \o " " \o OPERATOR_MAPPING[operator] \o " " \o rhs_code
    ELSE lhs_code \o " > " \o rhs_code \o "  # Unknown operator: " \o operator

\* A comparison condition, both operands generated: the comment, the `if` line and
\* the true branch.
ComparisonCode(node, depth, universe_symbols, hash, lhs, rhs) ==
    LET indent == Indent(depth)
        operator == Lower(Format(GetOr(node, "operator", S("gt"))))
        self1 == IF operator \in {"crosses_above", "crosses_below"}
                 THEN [rhs.self EXCEPT !.helper_methods_needed = @ \cup {operator}]
                 ELSE rhs.self
        head == <<Line(indent \o "# "
                       \o Format(GetOr(node, "description", S("Condition comparison")))),
                  Line(indent \o "if " \o ConditionExpr(operator, lhs.code, rhs.code) \o ":")>>
    IN  IF rhs.raised THEN Crash(rhs.self)
        ELSE IF Has(node, "children") /\ Truthy(Get(node, "children"))
        THEN AppendCode(head,
                        _generate_node_code(self1, Get(node, "children"), depth + 1,
                                            universe_symbols, hash))
        ELSE Code(self1, JoinLines(head \o
                 <<Line(indent \o "    # No action defined for true condition")>>))

\* A comparison condition, its left operand generated.
ComparisonFrom(node, depth, universe_symbols, hash, lhs) ==
    IF lhs.raised THEN Crash(lhs.self)
    ELSE ComparisonCode(node, depth, universe_symbols, hash, lhs,
                        _generate_operand_code(lhs.self, Get(node, "rhs")))

\* An if-else container, its branches generated.
IfElseCode(indent, comment, first_code, others) ==
    IF others.raised THEN Crash(others.self)
    ELSE Code(others.self,
              JoinLines(comment \o <<first_code>> \o ElseBranches(indent, others.codes)))

\* An if-else container, its first branch generated.
IfElseFrom(indent, comment, first, branches, depth, universe_symbols, hash) ==
    IF first.raised THEN Crash(first.self)
    ELSE IfElseCode(indent, comment, first.code,
                    GenerateEach(first.self, Tail(branches), depth + 1, universe_symbols, hash))

\* A container whose children run one after the other, the children generated.
SequentialCode(comment, each) ==
    IF each.raised THEN Crash(each.self)
    ELSE Code(each.self, JoinLines(comment \o NonBlank(each.codes)))

\* The comment _generate_condition_code makes of the description of a container.
ContainerComment(indent, description) ==
    IF ~ContainsConditionalLogic(Lower(description.v))
       \/ ~ContainsContainer(Lower(description.v))
    THEN <<Line(indent \o "# " \o description.v)>>
    ELSE <<>>

\* _generate_condition_code(node, depth, universe_symbols)
_generate_condition_code(self, node, depth, universe_symbols, hash) ==
    LET indent == Indent(depth)
        self0 == [self EXCEPT !.condition_counter = @ + 1]
        has_comparison_fields == Has(node, "lhs") \/ Has(node, "operator") \/ Has(node, "rhs")
        children == Get(node, "children")
        has_children == Has(node, "children") /\ Truthy(children)
        description == GetOr(node, "description", S("Conditional logic container"))
        comment == ContainerComment(indent, description)
        branches == IF IsList(children) THEN children.v ELSE <<children>>
        has_else_branches == AnyElseBranch(Tail(branches))
    IN  IF has_comparison_fields
        THEN ComparisonFrom(node, depth, universe_symbols, hash,
                            _generate_operand_code(self0, Get(node, "lhs")))
        ELSE IF has_children
        THEN IF ~IsStr(description) THEN Crash(self0)
             ELSE IF Len(branches) = 1
             THEN AppendCode(comment,
                             _generate_node_code(self0, branches[1], depth,
                                                 universe_symbols, hash))
             ELSE IF has_else_branches = "raised" THEN Crash(self0)
             ELSE IF has_else_branches = "yes"
             THEN IfElseFrom(indent, comment,
                             _generate_node_code(self0, branches[1], depth,
                                                 universe_symbols, hash),
                             branches, depth, universe_symbols, hash)
             ELSE SequentialCode(comment,
                                 GenerateEach(self0, branches, depth, universe_symbols, hash))
        ELSE Code(self0, Line(indent
                 \o "# Invalid condition node - no comparison fields or children"))

\* The code of a list of nodes, the nodes generated: "\n\n".join(code_blocks).
BlocksCode(each) ==
    IF each.raised THEN Crash(each.self)
    ELSE Code(each.self, JoinBlocks(NonBlank(each.codes)))

\* _generate_node_code(node, depth, universe_symbols)
_generate_node_code(self, node, depth, universe_symbols, hash) ==
    LET indent == Indent(depth)
        node_type == Lower(Format(GetOr(node, "type", S(""))))
    IN  IF IsList(node)
        THEN BlocksCode(GenerateEach(self, node.v, depth, universe_symbols, hash))
        ELSE IF IsDict(node)
        THEN CASE node_type = "condition" ->
                  _generate_condition_code(self, node, depth, universe_symbols, hash)
               [] node_type = "filter" -> _generate_filter_code(self, node, depth)
               [] node_type = "order" ->
                  _generate_order_code(self, node, depth, universe_symbols, hash)
               [] node_type = "exit" -> _generate_exit_code(self, node, depth)
               [] node_type = "expression" -> _generate_expression_code(self, node, depth)
               [] node_type = "weight" ->
                  _generate_weight_code(self, node, depth, universe_symbols, hash)
               [] node_type = "group" ->
                  _generate_group_code(self, node, depth, universe_symbols, hash)
               [] OTHER -> Code(self, Line(indent \o "# Unknown node type: " \o node_type))
        ELSE Code(self, Line(indent \o "# Invalid node structure"))

\* The symbols of the universe argument, upper-cased: [raised, symbols].
UniverseSymbols(universe) ==
    LET assets == IF Truthy(universe) THEN Iterate(universe) ELSE <<>>
        named == {i \in 1..Len(assets) : IsDict(assets[i]) /\ Truthy(Get(assets[i], "symbol"))}
    IN  IF Truthy(universe) /\ universe.t \notin {"list", "str", "dict"}
        THEN [raised |-> TRUE, symbols |-> {}]
        ELSE IF \E i \in named : ~IsStr(Get(assets[i], "symbol"))
        THEN [raised |-> TRUE, symbols |-> {}]
        ELSE [raised |-> FALSE, symbols |-> {Upper(Get(assets[i], "symbol").v) : i \in named}]

on_data_header ==
    <<"    def OnData(self, data: Slice) -> None:",
      "        '''Main algorithm logic executed on each data point'''">>

\* What generate_logic_code returns, the logic tree generated: [raised, self, result].
LogicCode(main, hash) ==
    IF main.raised \/ generate_initialization_code(main.self.indicator_generator).raised
    THEN [raised |-> TRUE, self |-> main.self, result |-> Null]
    ELSE [raised |-> FALSE, self |-> main.self,
          result |->
             [main_logic_code |-> on_data_header \o main.code,
              indicator_initialization_code |->
                  generate_initialization_code(main.self.indicator_generator).code,
              indicators_used |-> KeyList(main.self.indicator_generator.indicators_used),
              symbols_referenced |-> ListOfSet(main.self.symbols_referenced, hash),
              variables_created |-> ListOfSet(main.self.variables_created, hash)]]

\* generate_logic_code(logic, universe) under the string hashes `hash`.
generate_logic_code(self, logic_tree, universe, hash) ==
    LET universe_symbols == UniverseSymbols(universe)
    IN  IF universe_symbols.raised
        THEN [raised |-> TRUE, self |-> _reset_counters(self), result |-> Null]
        ELSE LogicCode(_generate_node_code(_reset_counters(self), logic_tree, 0,
                                           universe_symbols.symbols, hash),
                       hash)

\* `metric['symbol'] = symbol` in the loop of _generate_filter_code over the universe:
\* the metric object of the node is left holding the last symbol.
FilterAfter(node) ==
    LET universe == GetOr(node, "universe", L(<<>>))
        metric == Get(node, "metric")
    IN  IF IsDict(metric) /\ universe.t \in {"list", "str", "dict"}
        THEN IF Iterate(universe) # <<>>
             THEN DictSet(node, "metric",
                          DictSet(metric, "symbol", Iterate(universe)[Len(Iterate(universe))]))
             ELSE node
        ELSE node

\* The logic tree as a call of generate_logic_code that returns leaves it: every filter
\* node _generate_node_code reaches (the elements of a list, the children of a
\* condition, a group or a weight) has gone through _generate_filter_code.
RECURSIVE TreeAfter(_)
TreeAfter(node) ==
    IF IsList(node) THEN L([i \in 1..Len(node.v) |-> TreeAfter(node.v[i])])
    ELSE IF ~IsDict(node) THEN node
    ELSE IF Lower(Format(GetOr(node, "type", S("")))) = "filter" THEN FilterAfter(node)
    ELSE IF /\ Lower(Format(GetOr(node, "type", S("")))) \in {"condition", "group", "weight"}
            /\ Has(node, "children") /\ Truthy(Get(node, "children"))
    THEN DictSet(node, "children", TreeAfter(Get(node, "children")))
    ELSE node

(***************************************************************************)
(* The generator at work: an interpreter starts with string hashes of its  *)
(* own and a fresh NodeGenerator, and generate_logic_code is called on the *)
(* same strategy up to MaxRuns times.                                      *)
(***************************************************************************)
GenSymbols == {"SPY", "TQQQ", "BSV"}

\* The orders in which a set can yield the symbols, one per hash seed.
HashOrders ==
    {h \in [1..Cardinality(GenSymbols) -> GenSymbols] :
        \A i, j \in DOMAIN h : i # j => h[i] # h[j]}

Asset(symbol) == D(<< <<"symbol", S(symbol)>> >>)
GenUniverses ==
    {L(<<Asset("SPY"), Asset("TQQQ"), Asset("BSV")>>),
     L(<<Asset("TQQQ"), Asset("spy")>>),
     L(<<Asset("BSV")>>),
     Null}

GenOrder(fields) == D(<< <<"type", S("order")>> >> \o fields)
GenOrders ==
    {GenOrder(<< <<"side", S("long")>> >>),
     GenOrder(<< <<"side", S("short")>>, <<"size", Fl(5000)>> >>),
     GenOrder(<< <<"side", S("long")>>, <<"symbol_filter", S("SPY")>> >>),
     GenOrder(<< <<"side", S("long")>>, <<"allocation", S("weighted")>>,
                 <<"weights", D(<< <<"TQQQ", Fl(50)>>, <<"SPY", Fl(50)>> >>)>> >>),
     GenOrder(<< <<"side", S("short")>>, <<"size_type", S("fixed_qty")>>, <<"size", I(10)>> >>),
     GenOrder(<< <<"size_type", S("fixed_value")>>, <<"size", Fl(100000)>>,
                 <<"weights", D(<< <<"BSV", I(1)>> >>)>> >>)}

GenFilter ==
    D(<< <<"type", S("filter")>>, <<"universe", L(<<S("TQQQ"), S("SPY")>>)>>,
         <<"select", S("top")>>, <<"selection", D(<< <<"n", I(1)>> >>)>>,
         <<"metric", D(<< <<"name", S("rsi")>>, <<"args", ArgsP20>> >>)>> >>)

GenLeaves ==
    GenOrders \cup
    {D(<< <<"type", S("weight")>>,
          <<"weights", D(<< <<"SPY", Fl(50)>>, <<"TQQQ", Fl(30)>>, <<"BSV", Fl(20)>> >>)>> >>),
     GenFilter,
     D(<< <<"type", S("exit")>> >>),
     D(<< <<"type", S("expression")>>, <<"expression", S("rsi_spy_14 > 70")>> >>)}

GenThen(child) ==
    D(<< <<"type", S("condition")>>, <<"description", S("Then branch")>>,
         <<"lhs", Metric(S("rsi"), S("SPY"), ArgsP20)>>, <<"operator", S("gt")>>,
         <<"rhs", I(70)>>, <<"children", L(<<child>>)>> >>)
GenElse(child) ==
    D(<< <<"type", S("group")>>, <<"description", S("Else branch")>>,
         <<"children", L(<<child>>)>> >>)
GenIfElse(a, b) ==
    D(<< <<"type", S("condition")>>, <<"children", L(<<GenThen(a), GenElse(b)>>)>> >>)

\* Inputs no validator would accept: a node that is not a dict, a node of an unknown
\* type, an order whose symbol_filter is a number.
GenJunk ==
    {I(5), D(<< <<"type", S("bogus")>> >>),
     GenOrder(<< <<"side", S("long")>>, <<"symbol_filter", I(5)>> >>)}

\* A comparison condition whose children are a then-node and an Else-branch group.
GenComparisonElse(a, b) ==
    D(<< <<"type", S("condition")>>,
         <<"lhs", Metric(S("rsi"), S("SPY"), ArgsP20)>>, <<"operator", S("gt")>>,
         <<"rhs", I(70)>>, <<"children", L(<<a, GenElse(b)>>)>> >>)
GenComparisonElses ==
    {GenComparisonElse(
         GenOrder(<< <<"side", S("long")>>, <<"weights", D(<< <<"SPY", Fl(100)>> >>)>> >>),
         GenOrder(<< <<"side", S("long")>>, <<"weights", D(<< <<"BSV", Fl(100)>> >>)>> >>)),
     GenComparisonElse(
         GenOrder(<< <<"side", S("long")>>, <<"weights", D(<< <<"TQQQ", Fl(100)>> >>)>> >>),
         D(<< <<"type", S("weight")>>, <<"allocation_method", S("explicit_weights")>>,
              <<"weights", D(<< <<"BSV", Fl(100)>> >>)>> >>))}

\* Orders validate_order_node accepts: each names a weight for every symbol.
GenValidOrders ==
    {GenOrder(<< <<"side", S("long")>>, <<"symbol_filter", S("SPY")>>,
                 <<"allocation", S("weighted")>>,
                 <<"weights", D(<< <<"SPY", Fl(50)>>, <<"TQQQ", Fl(50)>> >>)>> >>),
     GenOrder(<< <<"side", S("long")>>, <<"symbol_filter", S("SPY")>>,
                 <<"weights", D(<< <<"SPY", Fl(50)>>, <<"TQQQ", Fl(50)>> >>)>> >>),
     GenOrder(<< <<"side", S("long")>>, <<"size_type", S("risk_based")>>,
                 <<"weights", D(<< <<"SPY", Fl(100)>> >>)>> >>),
     GenOrder(<< <<"side", S("short")>>, <<"allocation", S("custom")>>,
                 <<"weights", D(<< <<"SPY", Fl(60)>>, <<"BSV", Fl(40)>> >>)>> >>),
     GenOrder(<< <<"side", S("long")>>, <<"allocation", S("weighted")>>,
                 <<"weights", D(<< <<"SPY", I(0)>>, <<"BSV", I(0)>> >>)>> >>)}

\* A comparison of a metric with 1 whose true branch is an order on SPY.
GenOn(metric) ==
    D(<< <<"type", S("condition")>>, <<"lhs", metric>>, <<"operator", S("gt")>>,
         <<"rhs", I(1)>>,
         <<"children", L(<<GenOrder(<< <<"side", S("long")>>,
                                       <<"weights", D(<< <<"SPY", Fl(100)>> >>)>> >>)>>)>> >>)

\* A metric object without the args key.
MetricOn(name, symbol) == D(<< <<"name", S(name)>>, <<"symbol", S(symbol)>> >>)

GenMetrics ==
    {Metric(S("max-drawdown"), S("SPY"), ArgsP20),
     MetricOn("drawdown", "SPY"),
     Metric(S("moving-average-return"), S("TQQQ"), ArgsP20),
     MetricOn("current-price", "SPY"),
     D(<< <<"name", S("current-price")>> >>),
     MetricOn("month", "SPY"),
     D(<< <<"name", S("month")>> >>),
     D(<< <<"name", S("day-of-week")>> >>),
     MetricOn("cumulative-return", "SPY"),
     Metric(S("sma"), S("SPY"), ArgsP20),
     Metric(S("volatility"), S("SPY"), ArgsP20)}

GenConditions == {GenOn(m) : m \in GenMetrics}

GenLogics ==
    GenLeaves \cup GenJunk \cup GenComparisonElses \cup GenValidOrders \cup GenConditions
    \cup {L(<<a, b>>) : a \in GenOrders, b \in GenLeaves \ GenOrders}
    \cup {GenIfElse(a, b) : a, b \in GenOrders}

\* The strategies compiled after another one by the same process.
GenReloads ==
    {GenOrder(<< <<"size_type", S("fixed_value")>>, <<"size", Fl(100000)>>,
                 <<"weights", D(<< <<"BSV", I(1)>> >>)>> >>),
     GenIfElse(GenOrder(<< <<"side", S("long")>> >>),
               GenOrder(<< <<"side", S("long")>>, <<"symbol_filter", S("SPY")>> >>))}

InitGenerate ==
    /\ gen_hash \in HashOrders
    /\ gen = NewNodeGenerator
    /\ gen_in \in {[logic |-> l, universe |-> u] : l \in GenLogics, u \in GenUniverses}
    /\ gen_runs = <<>>
    /\ IdleExceptGenerator

\* The interpreter is started anew: new string hashes, a new NodeGenerator.
StartInterpreter ==
    /\ Len(gen_runs) < MaxRuns
    /\ gen_hash' \in HashOrders
    /\ gen' = NewNodeGenerator
    /\ UNCHANGED <<gen_in, gen_runs, exceptGenerator>>

\* The caller loads another strategy after a compilation.
LoadStrategy ==
    /\ gen_runs # <<>> /\ Len(gen_runs) < MaxRuns
    /\ \E l \in GenReloads \ {gen_in.logic} : gen_in' = [gen_in EXCEPT !.logic = l]
    /\ UNCHANGED <<gen_hash, gen, gen_runs, exceptGenerator>>

\* One call of generate_logic_code on the strategy.  The tree the caller holds is the
\* object the call works on; of the strategies at hand, a call that raises does so
\* on an order, before it reaches a filter.
GenerateLogicCode ==
    /\ Len(gen_runs) < MaxRuns
    /\ \E r \in {generate_logic_code(gen, gen_in.logic, gen_in.universe, gen_hash)} :
           /\ gen' = r.self
           /\ \E after \in {IF r.raised THEN gen_in.logic ELSE TreeAfter(gen_in.logic)} :
                  /\ gen_in' = [gen_in EXCEPT !.logic = after]
                  /\ gen_runs' = Append(gen_runs,
                                        [from |-> gen, hash |-> gen_hash,
                                         logic |-> gen_in.logic, universe |-> gen_in.universe,
                                         raised |-> r.raised, result |-> r.result,
                                         after |-> after])
    /\ UNCHANGED <<gen_hash, exceptGenerator>>

NextGenerate == StartInterpreter \/ LoadStrategy \/ GenerateLogicCode
SpecGenerate == InitGenerate /\ [][NextGenerate]_vars

\* One NodeGenerator compiling several strategies in a row: the first is a strategy
\* with a filter, one with a condition, a plain order, or a list whose second order
\* makes the call raise after the first was generated.
ReuseLogics ==
    GenReloads
    \cup {GenFilter,
          L(<<GenOrder(<< <<"side", S("long")>> >>),
              GenOrder(<< <<"side", S("long")>>, <<"symbol_filter", I(5)>> >>)>>)}

InitReuse ==
    /\ gen_hash \in HashOrders
    /\ gen = NewNodeGenerator
    /\ gen_in \in {[logic |-> l, universe |-> u] :
                      l \in ReuseLogics,
                      u \in {L(<<Asset("SPY"), Asset("TQQQ"), Asset("BSV")>>), Null}}
    /\ gen_runs = <<>>
    /\ IdleExceptGenerator

SpecReuse == InitReuse /\ [][NextGenerate]_vars

\* C7: two runs of generate_logic_code on the same logic tree and the same universe,
\* each starting from the same generator and registry state, return identical
\* results: the same statements in the same order, the same indicators_used and the
\* same symbols_referenced in the same order.
C7_RoundTripDeterminism ==
    \A i, j \in 1..Len(gen_runs) :
        (/\ gen_runs[i].from = gen_runs[j].from
         /\ gen_runs[i].logic = gen_runs[j].logic
         /\ gen_runs[i].universe = gen_runs[j].universe)
            => /\ gen_runs[i].raised = gen_runs[j].raised
               /\ gen_runs[i].result = gen_runs[j].result

\* The comment line an unrecognized or invalid node is to contribute.
InertComments == {"        # Invalid node structure", "        # Unknown node type: bogus"}

\* C17: generate_logic_code returns a result for every input tree, validated or not, and
\* never raises; an unrecognized or structurally invalid node contributes one inert
\* comment line and nothing else.
C17_PermissiveGenerator ==
    \A i \in 1..Len(gen_runs) :
        /\ ~gen_runs[i].raised
        /\ gen_runs[i].logic \in GenJunk
              => \E c \in InertComments :
                    gen_runs[i].result.main_logic_code = on_data_header \o <<c>>

\* The nodes of a logic tree: the root (or the elements of a root list) and every entry
\* of a children field below.
TreeNodes(tree) ==
    LET top == IF IsList(tree) THEN Range(tree.v) ELSE {tree}
    IN  top \cup UNION {Entries(n) : n \in {d \in top : IsDict(d)}}

\* Every node of the tree is a dict that its validator accepts.
Accepted(tree) == \A n \in TreeNodes(tree) : IsDict(n) /\ PassesValidator(n)

\* C18: generate_logic_code leaves the logic tree it is given unchanged, every field of
\* every node (the metric object of a filter included) keeps its value, and a tree the
\* validator accepts before the call is accepted after it.
C18_InputImmutable ==
    \A i \in 1..Len(gen_runs) :
        /\ gen_runs[i].after = gen_runs[i].logic
        /\ Accepted(gen_runs[i].logic) => Accepted(gen_runs[i].after)

\* The same call on a fresh NodeGenerator.
FreshRun(run) == generate_logic_code(NewNodeGenerator, run.logic, run.universe, run.hash)

SameOutcome(run, r) == run.raised = r.raised /\ run.result = r.result

\* C19: every call of generate_logic_code starts from cleared counters, cleared sets and
\* a cleared registry: the result of a call on a NodeGenerator that has compiled other
\* trees equals the result of the same call on a fresh NodeGenerator, so that no
\* indicator, symbol or counter value of an earlier call appears in it.
C19_PerCompilationReset ==
    \A i \in 1..Len(gen_runs) : SameOutcome(gen_runs[i], FreshRun(gen_runs[i]))

\* A second call on a generator that holds the symbols, the indicators and the counters
\* of a first call on another tree returned, with none of those symbols and indicators
\* in its result.
C19_Witness ==
    /\ Len(gen_runs) = 2
    /\ gen_runs[2].logic # gen_runs[1].logic
    /\ gen_runs[2].from.symbols_referenced # {}
    /\ gen_runs[2].from.indicator_generator.indicators_used # <<>>
    /\ gen_runs[2].from.filter_counter > 0
    /\ ~gen_runs[2].raised
    /\ gen_runs[2].result.indicators_used = <<>>
    /\ Range(gen_runs[2].result.symbols_referenced) # {}
    /\ Range(gen_runs[2].result.symbols_referenced) \cap gen_runs[2].from.symbols_referenced = {}

(***************************************************************************)
(* Reading the generated code: a text is the sequence of its lines.        *)
(***************************************************************************)
StartsWith(line, p) == Len(line) >= Len(p) /\ SubSeq(line, 1, Len(p)) = p

\* The number of blanks a line starts with.
RECURSIVE Leading(_)
Leading(line) ==
    IF Len(line) > 0 /\ SubSeq(line, 1, 1) = " "
    THEN 1 + Leading(SubSeq(line, 2, Len(line)))
    ELSE 0

\* The statement of a line: the line without its indentation.
Statement(line) == SubSeq(line, Leading(line) + 1, Len(line))

\* The line is a statement that places an order.
PlacesOrder(line) ==
    \/ StartsWith(Statement(line), "self.SetHoldings(")
    \/ StartsWith(Statement(line), "self.MarketOrder(")

\* The line places an order on the symbol expression `a`.
PlacesOrderOn(line, a) ==
    \/ StartsWith(Statement(line), "self.SetHoldings(" \o a \o ", ")
    \/ StartsWith(Statement(line), "self.MarketOrder(" \o a \o ", ")

Quoted(symbol) == "'" \o symbol \o "'"

\* The runs of generate_logic_code that returned.
ReturnedRuns == {i \in 1..Len(gen_runs) : ~gen_runs[i].raised}

\* A comparison condition whose children end with an Else-branch group and which
\* validate_condition_node accepts.
IsComparisonWithElse(n) ==
    /\ IsDict(n) /\ Get(n, "type") = S("condition")
    /\ Has(n, "lhs") /\ Has(n, "operator") /\ Has(n, "rhs")
    /\ IsList(Get(n, "children")) /\ Len(Get(n, "children").v) >= 2
    /\ _is_else_group(Get(n, "children").v[Len(Get(n, "children").v)],
                      ConditionDefaults.else_label)
    /\ PassesValidator(n)

\* The statements of the else group of a comparison condition at the root, as they
\* stand one level below the `if`.
ElseStatements(run) ==
    _generate_node_code(NewNodeGenerator,
                        Get(run.logic, "children").v[Len(Get(run.logic, "children").v)],
                        1, UniverseSymbols(run.universe).symbols, run.hash).code

\* C21: for a comparison condition whose children are then-nodes followed by an
\* Else-branch group, the emitted code has an `else:` line at the indentation of the
\* `if` of the comparison, and the statements generated from the else group stand
\* under it, after the true branch; they are never emitted inside the true branch.
C21_ElseBranchPlacement ==
    \A i \in ReturnedRuns :
        IsComparisonWithElse(gen_runs[i].logic)
            => \E else_code \in {ElseStatements(gen_runs[i])} :
                  \E e \in 1..Len(gen_runs[i].result.main_logic_code) :
                      /\ gen_runs[i].result.main_logic_code[e] = Indent(0) \o "else:"
                      /\ SubSeq(gen_runs[i].result.main_logic_code, e + 1,
                                Len(gen_runs[i].result.main_logic_code)) = else_code

IsOrder(n) == IsDict(n) /\ Get(n, "type") = S("order")

\* The target symbols of an order: symbol_filter if given, else the weights keys,
\* else the symbols of the enclosing universe.
TargetSet(node, universe) ==
    IF Truthy(Get(node, "symbol_filter")) THEN {Get(node, "symbol_filter").v}
    ELSE IF Truthy(Get(node, "weights")) THEN Range(Keys(Get(node, "weights")))
    ELSE UniverseSymbols(universe).symbols

\* The symbols an order node and its universe name.
NamedSymbols(node, universe) ==
    TargetSet(node, universe) \cup UniverseSymbols(universe).symbols
    \cup (IF IsDict(Get(node, "weights")) THEN Range(Keys(Get(node, "weights"))) ELSE {})

\* The symbols for which the code holds an order-placing statement.
OrderedSymbols(code, symbols) ==
    {s \in symbols : \E k \in 1..Len(code) : PlacesOrderOn(code[k], Quoted(s))}

\* C22: for every order node, whatever its size_type and allocation, the symbols for
\* which _generate_order_code emits an order statement are exactly the target set
\* (symbol_filter if given, else the weights keys, else the universe symbols).
C22_OrderTargetSymbols ==
    \A i \in ReturnedRuns :
        IsOrder(gen_runs[i].logic)
            => OrderedSymbols(gen_runs[i].result.main_logic_code,
                              NamedSymbols(gen_runs[i].logic, gen_runs[i].universe))
               = TargetSet(gen_runs[i].logic, gen_runs[i].universe)

\* The symbol expressions an order-placing statement of the model is about: a quoted
\* symbol or the loop variable `symbol`.
SymbolExpressions == {"symbol"} \cup {Quoted(s) : s \in GenSymbols \cup {"spy"}}

\* Line i of the code is nested under an `if self._is_security_ready_for_trading(a):`
\* for the symbol expression `a` it places its order on: the guard stands above it with
\* less indentation, and every line between them is indented deeper than the guard.
UnderReadyGuard(code, i) ==
    \E a \in SymbolExpressions :
        /\ PlacesOrderOn(code[i], a)
        /\ \E j \in 1..(i - 1) :
              /\ Statement(code[j]) = "if self._is_security_ready_for_trading(" \o a \o "):"
              /\ Leading(code[j]) < Leading(code[i])
              /\ \A m \in (j + 1)..(i - 1) :
                    code[m] = "" \/ Leading(code[m]) > Leading(code[j])

\* C23: every order-placing statement (SetHoldings or MarketOrder) of main_logic_code,
\* whether it comes from an order, a filter, a weight or an exit node, is nested under
\* a _is_security_ready_for_trading check for the same symbol.
C23_ReadinessGuard ==
    \A i \in ReturnedRuns :
        \A k \in 1..Len(gen_runs[i].result.main_logic_code) :
            PlacesOrder(gen_runs[i].result.main_logic_code[k])
                => UnderReadyGuard(gen_runs[i].result.main_logic_code, k)

\* The registry entry _process_indicator stores for a metric with a symbol.
EntryOf(m) ==
    [name |-> Lower(PyStr(GetOr(m, "name", S("unknown")))),
     symbol |-> Upper(Get(m, "symbol").v),
     args |-> GetOr(m, "args", D(<<>>))]

\* The custom indicators the comparison at the root of a tree references for a symbol.
CustomReferences(tree) ==
    IF ~IsDict(tree) THEN {}
    ELSE {m \in MetricOperands(tree) :
             /\ Get(m, "name") \in {S(n) : n \in CUSTOM_INDICATORS}
             /\ IsStr(Get(m, "symbol"))}

\* The parts of the result that write_py_file puts into the strategy class besides the
\* fixed text of the readiness helper: the initialization code and OnData.
CompiledLines(result) ==
    Range(result.indicator_initialization_code) \cup Range(result.main_logic_code)

\* C24: whenever the compiled tree references a custom indicator (max-drawdown,
\* drawdown, moving-average-return) for a symbol, the compiled code holds a per-bar
\* update(price) call on the indicator instance, under the attribute name the
\* initialization code assigns.
C24_CustomIndicatorsUpdated ==
    \A i \in ReturnedRuns :
        \A m \in CustomReferences(gen_runs[i].logic) :
            \E line \in CompiledLines(gen_runs[i].result) :
                Statement(line) = InitAttribute(EntryOf(m)) \o ".update(price)"

PSEUDO_INDICATORS == {"month", "day-of-week", "day-of-month", "day-of-year", "current-price"}

\* A comparison whose only metric operands are time-derived metrics or current-price.
ReadsPseudoIndicatorsOnly(tree) ==
    /\ IsDict(tree) /\ Get(tree, "type") = S("condition")
    /\ MetricOperands(tree) # {}
    /\ \A m \in MetricOperands(tree) : Get(m, "name") \in {S(n) : n \in PSEUDO_INDICATORS}

\* C27: computing the value expression of a time-derived metric or of current-price,
\* with or without a symbol, registers nothing: after generate_logic_code on a tree
\* that reads only such metrics, indicators_used is empty and the initialization code
\* is the one line of a strategy without indicators.
C27_PseudoIndicatorsUnregistered ==
    \A i \in ReturnedRuns :
        ReadsPseudoIndicatorsOnly(gen_runs[i].logic)
            => /\ gen_runs[i].result.indicators_used = <<>>
               /\ gen_runs[i].result.indicator_initialization_code
                     = <<"        # No indicators needed">>

EndsWith(line, p) ==
    Len(line) >= Len(p) /\ SubSeq(line, Len(line) - Len(p) + 1, Len(line)) = p

\* The indicator attributes the value expressions of the comparison at the root read
\* in main_logic_code: X for every expression (X.current.value) standing in the `if`.
AttributesRead(run) ==
    {SubSeq(c, 2, Len(c) - Len(".current.value)")) :
        c \in {e \in {ValueExpression(m).code : m \in MetricOperands(run.logic)} :
                  /\ StartsWith(e, "(self.") /\ EndsWith(e, ".current.value)")
                  /\ \E k \in 1..Len(run.result.main_logic_code) :
                        \/ StartsWith(Statement(run.result.main_logic_code[k]),
                                      "if " \o e \o " ")
                        \/ EndsWith(run.result.main_logic_code[k], " " \o e \o ":")}}

\* C28: for every tree whose nodes the validator accepts, every indicator attribute
\* that a value expression of main_logic_code reads is assigned by a line of
\* indicator_initialization_code under exactly the same name.
C28_InitAccessConsistency ==
    \A i \in ReturnedRuns :
        (IsDict(gen_runs[i].logic) /\ Get(gen_runs[i].logic, "type") = S("condition")
         /\ Accepted(gen_runs[i].logic))
            => \A a \in AttributesRead(gen_runs[i]) :
                  \E k \in 1..Len(gen_runs[i].result.indicator_initialization_code) :
                      StartsWith(Statement(gen_runs[i].result.indicator_initialization_code[k]),
                                 a \o " = ")

\* C29: for every tree in which each node is accepted by the validator of its type,
\* generate_logic_code returns a result without raising.
C29_ValidatedInputCompiles ==
    \A i \in 1..Len(gen_runs) : Accepted(gen_runs[i].logic) => ~gen_runs[i].raised

\* C30: for every order node validate_order_node accepts, whatever its size_type and
\* allocation, _generate_order_code emits at least one order-placing statement for
\* each target symbol.
C30_NoDroppedOrders ==
    \A i \in ReturnedRuns :
        (IsOrder(gen_runs[i].logic) /\ PassesValidator(gen_runs[i].logic))
            => \A s \in TargetSet(gen_runs[i].logic, gen_runs[i].universe) :
                  \E k \in 1..Len(gen_runs[i].result.main_logic_code) :
                      PlacesOrderOn(gen_runs[i].result.main_logic_code[k], Quoted(s))

(***************************************************************************)
(* The compiler pipeline: StrategyCompiler.start_compiler, one stage per   *)
(* step.  The universe, meta and settings sections of the strategy file    *)
(* are taken by what their validators answer for them; the logic section   *)
(* goes through validate_logic and generate_logic_code as modelled above.  *)
(***************************************************************************)
IdleExceptPipeline ==
    IdleRegistry /\ IdleKey /\ IdleValidate /\ IdleLogic /\ IdleIndicator /\ IdleGenerator
exceptPipeline == <<regVars, keyVars, valVars, indVars, genVars>>

\* A mutant of close_system_if_errors: the run goes on after a failed validation.
close_system_if_errors_going_on(is_valid, next) == next

\* close_system_if_errors(is_valid): sys.exit() after a failed validation; `next` is
\* where start_compiler goes on otherwise.
close_system_if_errors(is_valid, next) == IF is_valid THEN next ELSE "exited"

\* json_data['universe'] of the strategy files, whose symbols are allowed_symbols.
PipelineUniverse == L(<<Asset("TQQQ"), Asset("SQQQ"), Asset("BSV"), Asset("SPY")>>)

\* A filter validate_filter_node accepts and _generate_filter_code cannot divide.
TextSizeFilter ==
    D(<< <<"type", S("filter")>>, <<"universe", L(<<S("TQQQ"), S("SPY")>>)>>,
         <<"select", S("top")>>, <<"selection", D(<< <<"n", I(1)>> >>)>>,
         <<"metric", D(<< <<"name", S("current-price")>> >>)>>, <<"size", S("x")>> >>)

\* json_data['logic'] of the strategy files.
PipelineLogics ==
    {OrderLeaf, BadSideOrder, TextSizeFilter, L(<<OrderLeaf>>),
     Group(Absent, L(<<OrderLeaf>>)),
     Group(Absent, L(<<OrderLeaf, MissingWeightOrder>>)),
     Group(Absent, L(<<Group(S("Then branch"), L(<<ExitNode>>))>>))}

\* The strategy files: whether the universe, meta and settings sections are valid,
\* whether the settings hold the dates ("present"), a data file gives them ("found")
\* or neither ("missing"), and the logic section.
Strategies ==
    {[universe_valid |-> u, dates |-> d, meta_valid |-> m, settings_valid |-> st, logic |-> l] :
        u \in BOOLEAN, d \in {"present", "found", "missing"}, m \in BOOLEAN, st \in BOOLEAN,
        l \in PipelineLogics}

\* start_compiler has loaded the strategy file.
InitPipeline ==
    /\ pl_pc = "universe_validation"
    /\ pl_in \in Strategies
    /\ pl_trace = <<>>
    /\ pl_written = FALSE
    /\ IdleExceptPipeline

\* validate_universe_property, handle_validation_errors, close_system_if_errors
ValidateUniverse ==
    /\ pl_pc = "universe_validation"
    /\ pl_trace' = Append(pl_trace, "universe_validation")
    /\ pl_pc' = close_system_if_errors(pl_in.universe_valid, "dates")
    /\ UNCHANGED <<pl_in, pl_written, logicVars, exceptPipeline>>

\* generate_universe_setup, then add_start_and_end_dates: sys.exit() when the settings
\* lack the dates and no data file gives a start date.
AddStartAndEndDates ==
    /\ pl_pc = "dates"
    /\ pl_pc' = IF pl_in.dates = "missing" THEN "exited" ELSE "meta_validation"
    /\ UNCHANGED <<pl_in, pl_trace, pl_written, logicVars, exceptPipeline>>

\* validate_meta_property, handle_validation_errors, close_system_if_errors, process_meta
ValidateMeta ==
    /\ pl_pc = "meta_validation"
    /\ pl_trace' = Append(pl_trace, "meta_validation")
    /\ pl_pc' = close_system_if_errors(pl_in.meta_valid, "settings_validation")
    /\ UNCHANGED <<pl_in, pl_written, logicVars, exceptPipeline>>

\* validate_settings, handle_validation_errors, close_system_if_errors, process_settings
ValidateSettings ==
    /\ pl_pc = "settings_validation"
    /\ pl_trace' = Append(pl_trace, "settings_validation")
    /\ pl_pc' = close_system_if_errors(pl_in.settings_valid, "logic_validation")
    /\ UNCHANGED <<pl_in, pl_written, logicVars, exceptPipeline>>

\* logic_validator.validate_logic(json_data['logic'], allowed_symbols) is called; the
\* traversal actions carry it out.
ValidateLogic ==
    /\ pl_pc = "logic_validation" /\ lg_status = "idle"
    /\ pl_trace' = Append(pl_trace, "logic_validation")
    /\ logic' = pl_in.logic
    /\ lg_agenda' = <<Task("trace", pl_in.logic)>>
    /\ lg_status' = "running"
    /\ UNCHANGED <<pl_pc, pl_in, pl_written, lg_visited, lg_printed, exceptPipeline>>

\* validate_logic has returned: node_generator.generate_logic_code(json_data['logic'],
\* json_data.get('universe')), which returns or raises.
GenerateLogic ==
    /\ pl_pc = "logic_validation" /\ lg_status = "returned"
    /\ pl_trace' = Append(pl_trace, "logic_generation")
    /\ \E h \in HashOrders :
          \E r \in {generate_logic_code(NewNodeGenerator, logic, PipelineUniverse, h)} :
              pl_pc' = IF r.raised THEN "raised" ELSE "file_assembly"
    /\ UNCHANGED <<pl_in, pl_written, logicVars, exceptPipeline>>

\* write_py_file(output_file_path, ...)
WritePyFile ==
    /\ pl_pc = "file_assembly"
    /\ pl_trace' = Append(pl_trace, "file_assembly")
    /\ pl_written' = TRUE
    /\ pl_pc' = "done"
    /\ UNCHANGED <<pl_in, logicVars, exceptPipeline>>

NextPipeline ==
    \/ ValidateUniverse
    \/ AddStartAndEndDates
    \/ ValidateMeta
    \/ ValidateSettings
    \/ ValidateLogic
    \/ TraceJsonDataRecursive
    \/ CheckNodeTypeAndValidate
    \/ ValidateLogicReturns
    \/ GenerateLogic
    \/ WritePyFile

SpecPipeline == InitPipeline /\ [][NextPipeline]_vars

StageOrder ==
    <<"universe_validation", "meta_validation", "settings_validation", "logic_validation",
      "logic_generation", "file_assembly">>

\* C20: the stages of start_compiler run in the order universe validation, meta
\* validation, settings validation, logic validation, logic code generation, file
\* assembly; no stage starts after a validation that failed, and the output file is
\* written only in runs where the four validations succeeded.
C20_PipelineOrdering ==
    pl_pc # "idle"
        => /\ Len(pl_trace) <= Len(StageOrder)
           /\ pl_trace = SubSeq(StageOrder, 1, Len(pl_trace))
           /\ Len(pl_trace) >= 2 => pl_in.universe_valid
           /\ Len(pl_trace) >= 3 => pl_in.meta_valid
           /\ Len(pl_trace) >= 4 => pl_in.settings_valid
           /\ Len(pl_trace) >= 5 => (lg_status = "returned" /\ lg_printed = <<>>)
           /\ pl_written
                 => /\ pl_trace = StageOrder
                    /\ pl_in.universe_valid /\ pl_in.meta_valid /\ pl_in.settings_valid
                    /\ lg_status = "returned" /\ lg_printed = <<>>

\* A run went through the six stages and wrote the output file.
C20_Witness ==
    /\ pl_pc = "done" /\ pl_written
    /\ pl_trace = StageOrder
    /\ lg_visited # <<>>

=============================================================================
